---- MODULE Spec2Model ----
(***************************************************************************)
(* Verification model of the TG-FileStreamBot streaming data plane:        *)
(*   - the stream session store   (internal/streamauth/firebase.go)        *)
(*   - the token exchange route   (internal/routes/firebase_auth.go)       *)
(*   - the signing key cache      (internal/streamauth/firebase.go)        *)
(*   - the worker pool balancer   (package bot)                            *)
(*   - the worker start-up        (package bot, StartWorkers)              *)
(*   - the /direct stream handler (internal/routes/direct.go)              *)
(*   - the token verification, the metadata cache and the ranged reader    *)
(*   - the goroutines and the results channel of fetchFileWithRace         *)
(* Each component has its own specification (SpecSession, SpecSweep,       *)
(* SpecExchange, SpecKeys, SpecVerify, SpecCache, SpecPool, SpecStart,     *)
(* SpecReader, SpecRace, Spec, and SpecFetch for one request on a large    *)
(* pool); the variables of the other components stay at their initial      *)
(* value.                                                                  *)
(***************************************************************************)
EXTENDS Integers, Sequences, FiniteSets, TLC

VARIABLES
    now,        \* session store: wall clock (time.Now), in model ticks
    sessions,   \* sessionStore.sessions: token -> Session
    issued,     \* history: token -> what Create stored and returned for it
    clients,    \* session store: callers of Create / Validate, with their position
    sweeper,    \* session store: the cleanupLoop goroutine
    ret,        \* session store: what the step just taken returned to its caller
    Bots,       \* worker pool: Workers.Bots, each worker with its metrics counters
    sel,        \* worker pool: the selection call just made and what it returned
    run,        \* worker pool: the rounds of GetNextWorker + StartRequest so far
    cfg,        \* /direct: config.ValueOf and what the media message holds
    req,        \* /direct: the requests being handled, with their position
    cache,      \* /direct: metadata cache, one key per worker account
    requestLogs, \* /direct: number of entries appended by AddRequestLog
    publicKeys, \* firebaseVerifier.publicKeys: the kids of the cached keys
    cacheExpiry, \* firebaseVerifier.cacheExpiry
    mu,         \* firebaseVerifier.mu: the verifier holding the write lock, or 0
    certFetches, \* history: number of GETs of the certs endpoint so far
    verifiers,  \* callers of getPublicKey, with their position and locals
    verify,     \* VerifyToken: the call being made, its inputs and its result
    fcache,     \* metadata cache: the entries of the freecache, key -> bytes, expiry
    live,       \* history: key -> the descriptor of the last Set still in the cache
    cret,       \* metadata cache: what the call just made returned
    starting,   \* StartWorkers: Workers.starting
    sw,         \* StartWorkers: the position and locals of the call
    gor,        \* StartWorkers: the goroutines of the current batch, one per index
    adds,       \* StartWorkers: the calls of Workers.Add that have not returned
    rd,         \* ranged reader: its range, its upstream reads and what it yielded
    rc          \* fetchFileWithRace: its goroutines, the results channel, the receive loop

sessVars == <<now, sessions, issued, clients, sweeper, ret>>
poolVars == <<sel, run>>
directVars == <<cfg, req, cache, requestLogs>>
keyVars == <<publicKeys, cacheExpiry, mu, certFetches, verifiers>>
cacheVars == <<fcache, live, cret>>
startVars == <<starting, sw, gor, adds>>
auxVars == <<verify, cacheVars, startVars, rd, rc>>

vars == <<now, sessions, issued, clients, sweeper, ret, Bots, sel, run,
          cfg, req, cache, requestLogs,
          publicKeys, cacheExpiry, mu, certFetches, verifiers, verify,
          fcache, live, cret, starting, sw, gor, adds, rd, rc>>

(***************************************************************************)
(* Bounds                                                                  *)
(***************************************************************************)
MaxTime == 2        \* the clock stops after this many ticks
MaxTokens == 2      \* number of distinct tokens rand.Read can produce
MaxClients == 1     \* concurrent callers of the session store

SessionTTL == 1     \* sessionStore.ttl in ticks (positive, see newSessionStore)
MaxWorkers == 3     \* largest pool
MaxStarts == 3      \* StartRequest calls in one behaviour of the pool
MaxPool == 3        \* largest pool serving /direct requests
MaxFetchPool == 6   \* largest pool serving the single request of SpecFetch
MaxVerifiers == 2   \* concurrent callers of getPublicKey
MaxCertFetches == 3 \* GETs of the certs endpoint in one behaviour
CertTTL == 1        \* max-age of the certs response, in ticks
FileLen == 4        \* size of the media document, in bytes
ChunkLen == 2       \* chunk size of the ranged reader, in bytes
MaxBots == 4        \* largest number of worker bot tokens (MultiTokens)
MaxTimeouts == 1    \* start timeouts that fire in one behaviour, failures counted in
MaxFailures == 1    \* worker connections that fail in one behaviour, timeouts counted in
MaxOffset == 7      \* largest byte position a range request names

Tokens == 1..MaxTokens
EmptyToken == 0     \* the empty string
Clients == 1..MaxClients
\* the (subject, email) pairs the exchange handler passes to Create
Idents == {<<"u1", "e1">>, <<"u2", "e2">>}

NoSession == [UserID |-> "", Email |-> "", CreatedAt |-> 0, ExpiresAt |-> 0]

(***************************************************************************)
(* Session store                                                           *)
(***************************************************************************)
\* time.Time.After
After(t, u) == t > u

\* expiresAt := now.Add(s.ttl)
ExpiresAtWrong(t) == t
ExpiresAt(t) == t + SessionTTL

\* the expiry test of Validate: time.Now().After(session.ExpiresAt)
ValidateExpiredWrong(t, s) == FALSE
ValidateExpired(t, s) == After(t, s.ExpiresAt)

\* the expiry test of cleanupExpired: now.After(session.ExpiresAt)
SweepExpiredWrong(t, s) == ~After(s.ExpiresAt, t)
SweepExpired(t, s) == After(t, s.ExpiresAt)

\* the entry Validate removes lazily: delete(s.sessions, token)
LazyDeleteWrong(ss, tok) == [t \in {} |-> NoSession]
LazyDelete(ss, tok) == [t \in (DOMAIN ss) \ {tok} |-> ss[t]]

IdleClient == [pc |-> "idle", tok |-> EmptyToken, sess |-> NoSession, known |-> FALSE]

\* what the step just taken returned to its caller (op = "none": nothing)
NoReturn == [op |-> "none", tok |-> EmptyToken, known |-> FALSE, ok |-> FALSE,
             sess |-> NoSession]

SessionInit ==
    /\ now = 0
    /\ sessions = [t \in {} |-> NoSession]
    /\ issued = [t \in {} |-> NoSession]
    /\ clients = [c \in Clients |-> IdleClient]
    /\ sweeper = [pc |-> "wait", now |-> 0]
    /\ ret = NoReturn

\* the clock advances between any two steps
Tick ==
    /\ now < MaxTime
    /\ now' = now + 1
    /\ ret' = NoReturn
    /\ UNCHANGED <<sessions, issued, clients, sweeper>>
    /\ UNCHANGED <<Bots, poolVars, directVars, keyVars, auxVars>>

\* Create, first half: rand.Read, time.Now(), the Session value
CreateBegin(c) ==
    /\ clients[c].pc = "idle"
    /\ \E tok \in Tokens \ DOMAIN issued, id \in Idents :
          \* rand.Read of 32 bytes: no two Create calls draw the same token
          /\ \A d \in Clients : clients[d].pc \in {"create", "xstore"} => clients[d].tok # tok
          /\ clients' = [clients EXCEPT ![c] =
                [IdleClient EXCEPT !.pc = "create", !.tok = tok,
                    !.sess = [UserID |-> id[1], Email |-> id[2], CreatedAt |-> now,
                              ExpiresAt |-> ExpiresAt(now)]]]
    /\ ret' = NoReturn
    /\ UNCHANGED <<now, sessions, issued, sweeper>>
    /\ UNCHANGED <<Bots, poolVars, directVars, keyVars, auxVars>>

\* Create, second half: s.sessions[token] = session under the write lock, return
CreateStore(c) ==
    /\ clients[c].pc = "create"
    /\ LET tok == clients[c].tok
           s == clients[c].sess
       IN /\ sessions' = [t \in DOMAIN sessions \cup {tok} |->
                              IF t = tok THEN s ELSE sessions[t]]
          /\ issued' = [t \in DOMAIN issued \cup {tok} |->
                              IF t = tok THEN s ELSE issued[t]]
          /\ ret' = [op |-> "create", tok |-> tok, known |-> FALSE, ok |-> TRUE,
                     sess |-> s]
    /\ clients' = [clients EXCEPT ![c] = IdleClient]
    /\ UNCHANGED <<now, sweeper>>
    /\ UNCHANGED <<Bots, poolVars, directVars, keyVars, auxVars>>

\* Validate, the empty-token test and the lookup under the read lock
ValidateLookup(c) ==
    /\ clients[c].pc = "idle"
    /\ \E tok \in Tokens \cup {EmptyToken} :
          \* a caller presents a token Create returned, or one nobody holds
          /\ \A d \in Clients : clients[d].pc \in {"create", "xstore"} => clients[d].tok # tok
          /\ IF tok = EmptyToken \/ tok \notin DOMAIN sessions
             THEN /\ ret' = [op |-> "validate", tok |-> tok,
                             known |-> (tok \in DOMAIN issued), ok |-> FALSE,
                             sess |-> NoSession]
                  /\ UNCHANGED clients
             ELSE /\ clients' = [clients EXCEPT ![c] =
                        [pc |-> "check", tok |-> tok, sess |-> sessions[tok],
                         known |-> (tok \in DOMAIN issued)]]
                  /\ ret' = NoReturn
    /\ UNCHANGED <<now, sessions, issued, sweeper>>
    /\ UNCHANGED <<Bots, poolVars, directVars, keyVars, auxVars>>

\* Validate, the expiry test on a fresh time.Now()
ValidateCheck(c) ==
    /\ clients[c].pc = "check"
    /\ IF ValidateExpired(now, clients[c].sess)
       THEN /\ clients' = [clients EXCEPT ![c] = [@ EXCEPT !.pc = "delete"]]
            /\ ret' = NoReturn
       ELSE /\ clients' = [clients EXCEPT ![c] = IdleClient]
            /\ ret' = [op |-> "validate", tok |-> clients[c].tok,
                       known |-> clients[c].known, ok |-> TRUE,
                       sess |-> clients[c].sess]
    /\ UNCHANGED <<now, sessions, issued, sweeper>>
    /\ UNCHANGED <<Bots, poolVars, directVars, keyVars, auxVars>>

\* Validate, the lazy removal of the expired entry under the write lock
ValidateDelete(c) ==
    /\ clients[c].pc = "delete"
    /\ sessions' = LazyDelete(sessions, clients[c].tok)
    /\ clients' = [clients EXCEPT ![c] = IdleClient]
    /\ ret' = [op |-> "validate", tok |-> clients[c].tok, known |-> clients[c].known,
               ok |-> FALSE, sess |-> NoSession]
    /\ UNCHANGED <<now, issued, sweeper>>
    /\ UNCHANGED <<Bots, poolVars, directVars, keyVars, auxVars>>

\* cleanupExpired: now := time.Now() is read before the lock is taken
SweepBeginWrong ==
    /\ sweeper.pc = "wait"
    /\ sweeper' = [pc |-> "sweep", now |-> 0]
    /\ ret' = NoReturn
    /\ UNCHANGED <<now, sessions, issued, clients>>
    /\ UNCHANGED <<Bots, poolVars, directVars, keyVars, auxVars>>
SweepBegin ==
    /\ sweeper.pc = "wait"
    /\ sweeper' = [pc |-> "sweep", now |-> now]
    /\ ret' = NoReturn
    /\ UNCHANGED <<now, sessions, issued, clients>>
    /\ UNCHANGED <<Bots, poolVars, directVars, keyVars, auxVars>>

\* cleanupExpired: the scan under the write lock
cleanupExpired ==
    /\ sweeper.pc = "sweep"
    /\ sessions' = [t \in {x \in DOMAIN sessions : ~SweepExpired(sweeper.now, sessions[x])}
                        |-> sessions[t]]
    /\ sweeper' = [pc |-> "wait", now |-> 0]
    /\ ret' = NoReturn
    /\ UNCHANGED <<now, issued, clients>>
    /\ UNCHANGED <<Bots, poolVars, directVars, keyVars, auxVars>>

SessionStep ==
    \/ Tick
    \/ \E c \in Clients : CreateBegin(c)
    \/ \E c \in Clients : CreateStore(c)
    \/ \E c \in Clients : ValidateLookup(c)
    \/ \E c \in Clients : ValidateCheck(c)
    \/ \E c \in Clients : ValidateDelete(c)
    \/ SweepBegin
    \/ cleanupExpired

(***************************************************************************)
(* GET/POST /auth/firebase/exchange                                        *)
(* A string is the sequence of its characters.                             *)
(***************************************************************************)
\* strings.TrimSpace
RECURSIVE TrimSpace(_)
TrimSpace(s) ==
    IF s = <<>> THEN s
    ELSE IF Head(s) = " " THEN TrimSpace(Tail(s))
    ELSE IF s[Len(s)] = " " THEN TrimSpace(SubSeq(s, 1, Len(s) - 1))
    ELSE s

\* the case folding of the letters that occur in the headers
Lower(ch) ==
    CASE ch = "B" -> "b" [] ch = "E" -> "e" [] ch = "A" -> "a" [] ch = "R" -> "r"
      [] OTHER -> ch

\* strings.EqualFold
EqualFold(a, b) ==
    /\ Len(a) = Len(b)
    /\ \A i \in 1..Len(a) : Lower(a[i]) = Lower(b[i])

BearerPrefix == <<"B", "e", "a", "r", "e", "r", " ">>      \* "Bearer "

\* extractBearerToken: "" unless the trimmed value has 8 characters or more
\* and begins with "Bearer " in any case
extractBearerTokenWrong(value) ==
    LET v == TrimSpace(value)
    IN IF Len(v) < 3 THEN <<>> ELSE TrimSpace(SubSeq(v, 3, Len(v)))
extractBearerToken(value) ==
    LET v == TrimSpace(value)
    IN IF Len(v) < 8 THEN <<>>
       ELSE IF ~EqualFold(SubSeq(v, 1, 7), BearerPrefix) THEN <<>>
       ELSE TrimSpace(SubSeq(v, 8, Len(v)))

\* the Authorization header values a caller sends: none, "Bearer ",
\* "Basic abc", "bearer  g", "Bearer x", " BEARER h "
AuthHeaders ==
    {<<>>,
     <<"B", "e", "a", "r", "e", "r", " ">>,
     <<"B", "a", "s", "i", "c", " ", "a", "b", "c">>,
     <<"b", "e", "a", "r", "e", "r", " ", " ", "g">>,
     <<"B", "e", "a", "r", "e", "r", " ", "x">>,
     <<" ", "B", "E", "A", "R", "E", "R", " ", "h", " ">>}

\* VerifyFirebaseToken: what the verifier can answer for a raw token; "g"
\* and "h" are ID tokens of the two users, which verify unless the keys
\* cannot be had or the token has expired; anything else never verifies
VerifyToken(rawToken) ==
    {[ok |-> FALSE, Subject |-> "", Email |-> ""]} \cup
    (IF rawToken = <<"g">> THEN {[ok |-> TRUE, Subject |-> "u1", Email |-> "e1"]}
     ELSE IF rawToken = <<"h">> THEN {[ok |-> TRUE, Subject |-> "u2", Email |-> "e2"]}
     ELSE {})

\* what the exchange handler has answered: the status, and for 200 the
\* stream_token and the user_id, email and expires_at of the body; header
\* and bearer are the Authorization value and the token taken from it,
\* called tells whether VerifyFirebaseToken was called
ExchangeReturn(status, header, bearer, called, tok, sess) ==
    [op |-> "exchange", status |-> status, header |-> header, bearer |-> bearer,
     called |-> called, tok |-> tok, known |-> FALSE, ok |-> (status = 200),
     sess |-> sess]

\* the exchange handler up to the lock of Create: extractBearerToken,
\* VerifyFirebaseToken, and the first half of CreateSession (rand.Read,
\* which can fail, time.Now(), the Session value)
Exchange(c) ==
    /\ clients[c].pc = "idle"
    /\ \E header \in AuthHeaders :
        LET bearerToken == extractBearerToken(header)
        IN IF bearerToken = <<>>
           THEN /\ ret' = ExchangeReturn(401, header, bearerToken, FALSE, EmptyToken, NoSession)
                /\ UNCHANGED clients
           ELSE \E claims \in VerifyToken(bearerToken), randOk \in BOOLEAN :
                  IF ~claims.ok
                  THEN /\ ret' = ExchangeReturn(401, header, bearerToken, TRUE,
                                                EmptyToken, NoSession)
                       /\ UNCHANGED clients
                  ELSE IF ~randOk
                  THEN /\ ret' = ExchangeReturn(500, header, bearerToken, TRUE,
                                                EmptyToken, NoSession)
                       /\ UNCHANGED clients
                  ELSE \E tok \in Tokens \ DOMAIN issued :
                         /\ \A d \in Clients :
                               clients[d].pc \in {"create", "xstore"} => clients[d].tok # tok
                         /\ clients' = [clients EXCEPT ![c] =
                               [pc |-> "xstore", tok |-> tok, known |-> FALSE,
                                header |-> header, bearer |-> bearerToken,
                                sess |-> [UserID |-> claims.Subject, Email |-> claims.Email,
                                          CreatedAt |-> now, ExpiresAt |-> ExpiresAt(now)]]]
                         /\ ret' = NoReturn
    /\ UNCHANGED <<now, sessions, issued, sweeper>>
    /\ UNCHANGED <<Bots, poolVars, directVars, keyVars, auxVars>>

\* the exchange handler from the lock of Create on: s.sessions[token] =
\* session, the cookie and the 200 body
ExchangeStore(c) ==
    /\ clients[c].pc = "xstore"
    /\ LET tok == clients[c].tok
           s == clients[c].sess
       IN /\ sessions' = [t \in DOMAIN sessions \cup {tok} |->
                              IF t = tok THEN s ELSE sessions[t]]
          /\ issued' = [t \in DOMAIN issued \cup {tok} |->
                              IF t = tok THEN s ELSE issued[t]]
          /\ ret' = ExchangeReturn(200, clients[c].header, clients[c].bearer, TRUE, tok, s)
    /\ clients' = [clients EXCEPT ![c] = IdleClient]
    /\ UNCHANGED <<now, sweeper>>
    /\ UNCHANGED <<Bots, poolVars, directVars, keyVars, auxVars>>

\* the exchange route and the clock
ExchangeStep ==
    \/ Tick
    \/ \E c \in Clients : Exchange(c)
    \/ \E c \in Clients : ExchangeStore(c)

(***************************************************************************)
(* firebaseVerifier: the cache of the signing keys                         *)
(***************************************************************************)
Verifiers == 1..MaxVerifiers
Kids == {"k1", "k2"}        \* the kid of a token header
CertKids == {"k1"}          \* the keys the certs endpoint serves

IdleVerifier == [pc |-> "idle", kid |-> "", now |-> 0, force |-> FALSE, res |-> "none"]

KeysInit ==
    /\ publicKeys = {}
    /\ cacheExpiry = 0
    /\ mu = 0
    /\ certFetches = 0
    /\ verifiers = [v \in Verifiers |-> IdleVerifier]

\* time.Time.Before
Before(t, u) == t < u

\* refreshKeys returns at once: !force && time.Now().Before(v.cacheExpiry)
\* && len(v.publicKeys) > 0
RefreshSkipsWrong(force) == FALSE
RefreshSkips(force) == ~force /\ Before(now, cacheExpiry) /\ publicKeys # {}

\* getPublicKey is called for kid: now := time.Now()
GetPublicKeyBegin(v) ==
    /\ verifiers[v].pc = "idle"
    /\ \E kid \in Kids :
          verifiers' = [verifiers EXCEPT ![v] =
              [IdleVerifier EXCEPT !.pc = "lookup", !.kid = kid, !.now = now]]
    /\ UNCHANGED <<publicKeys, cacheExpiry, mu, certFetches>>
    /\ UNCHANGED <<Bots, sessVars, poolVars, directVars, auxVars>>

\* getPublicKey: the lookup under the read lock, and forceRefresh := !exists
KeyLookup(v) ==
    /\ verifiers[v].pc = "lookup"
    /\ mu = 0
    /\ LET exists == verifiers[v].kid \in publicKeys
           cacheValid == Before(verifiers[v].now, cacheExpiry) /\ publicKeys # {}
       IN verifiers' = [verifiers EXCEPT ![v] =
              IF exists /\ cacheValid
              THEN [IdleVerifier EXCEPT !.res = "key"]
              ELSE [@ EXCEPT !.pc = "refresh", !.force = ~exists]]
    /\ UNCHANGED <<publicKeys, cacheExpiry, mu, certFetches>>
    /\ UNCHANGED <<Bots, sessVars, poolVars, directVars, auxVars>>

\* refreshKeys: v.mu.Lock() and the test that skips the fetch
RefreshLock(v) ==
    /\ verifiers[v].pc = "refresh"
    /\ mu = 0
    /\ IF RefreshSkips(verifiers[v].force)
       THEN /\ verifiers' = [verifiers EXCEPT ![v] = [@ EXCEPT !.pc = "reread"]]
            /\ UNCHANGED mu
       ELSE /\ verifiers' = [verifiers EXCEPT ![v] = [@ EXCEPT !.pc = "fetch"]]
            /\ mu' = v
    /\ UNCHANGED <<publicKeys, cacheExpiry, certFetches>>
    /\ UNCHANGED <<Bots, sessVars, poolVars, directVars, auxVars>>

\* what the GET of the certs endpoint can give: a request error, a status
\* other than 200, a body that does not decode, an empty map, a map with a
\* certificate that does not parse, or a good map
CertResponses == {"error", "status", "undecodable", "empty", "badcert", "ok"}

\* refreshKeys parses the certificates into the local map parsedKeys and
\* assigns v.publicKeys only when every certificate parsed
StoredKeysWrong(resp, keys) == IF resp \in {"ok", "badcert"} THEN CertKids ELSE keys
StoredKeys(resp, keys) == IF resp = "ok" THEN CertKids ELSE keys

\* refreshKeys under the write lock: the GET of the certs endpoint; an error
\* returns (the deferred Unlock), a good answer assigns v.publicKeys
CertFetch(v) ==
    /\ verifiers[v].pc = "fetch"
    /\ mu = v
    /\ certFetches < MaxCertFetches
    /\ certFetches' = certFetches + 1
    /\ \E resp \in CertResponses :
          /\ publicKeys' = StoredKeys(resp, publicKeys)
          /\ IF resp = "ok"
             THEN /\ verifiers' = [verifiers EXCEPT ![v] = [@ EXCEPT !.pc = "store"]]
                  /\ mu' = mu
             ELSE /\ verifiers' = [verifiers EXCEPT ![v] =
                                      [IdleVerifier EXCEPT !.res = "refresh failed"]]
                  /\ mu' = 0
    /\ UNCHANGED cacheExpiry
    /\ UNCHANGED <<Bots, sessVars, poolVars, directVars, auxVars>>

\* refreshKeys, still under the write lock: v.cacheExpiry = time.Now().Add(ttl),
\* return nil and the deferred Unlock
CertStoreExpiry(v) ==
    /\ verifiers[v].pc = "store"
    /\ mu = v
    /\ cacheExpiry' = now + CertTTL
    /\ mu' = 0
    /\ verifiers' = [verifiers EXCEPT ![v] = [@ EXCEPT !.pc = "reread"]]
    /\ UNCHANGED <<publicKeys, certFetches>>
    /\ UNCHANGED <<Bots, sessVars, poolVars, directVars, auxVars>>

\* getPublicKey after refreshKeys: the second lookup under the read lock
KeyReread(v) ==
    /\ verifiers[v].pc = "reread"
    /\ mu = 0
    /\ verifiers' = [verifiers EXCEPT ![v] =
          [IdleVerifier EXCEPT !.res = IF verifiers[v].kid \in publicKeys
                                       THEN "key" ELSE "error"]]
    /\ UNCHANGED <<publicKeys, cacheExpiry, mu, certFetches>>
    /\ UNCHANGED <<Bots, sessVars, poolVars, directVars, auxVars>>

KeysStep ==
    \/ Tick
    \/ \E v \in Verifiers : GetPublicKeyBegin(v)
    \/ \E v \in Verifiers : KeyLookup(v)
    \/ \E v \in Verifiers : RefreshLock(v)
    \/ \E v \in Verifiers : CertFetch(v)
    \/ \E v \in Verifiers : CertStoreExpiry(v)
    \/ \E v \in Verifiers : KeyReread(v)

(***************************************************************************)
(* firebaseVerifier.VerifyToken                                            *)
(* A raw token is modelled by what its three parts hold once decoded.      *)
(***************************************************************************)
ProjectID == "proj"                                   \* v.projectID
IssuerOf(projectID) == <<"https://securetoken.google.com/", projectID>>
Issuer == IssuerOf(ProjectID)                         \* v.issuer
IatSkew == 300              \* iat > now+300 is refused
MaxSubject == 128           \* len(sub) > 128 is refused

\* the tokens presented: parts is the number of dot-separated parts,
\* signedBy the kid of the key whose signature part 3 holds, sub the length
\* of the sub claim
JWTs ==
    [parts : {2, 3}, alg : {"RS256", "HS256"}, kid : {"", "k1"},
     signedBy : {"k1", "k2"}, exp : {1, 2, 3}, iat : {0, 301, 302, 303},
     aud : {"proj", "other"},
     iss : {IssuerOf("proj"), IssuerOf("other")},
     sub : {0, 1, 128, 129}]

NoClaims == [ok |-> FALSE, Subject |-> 0, err |-> ""]

VerifyTimes == {1, 2}       \* the readings of time.Now().Unix()

\* VerifyToken(rawToken) at time unix; keyOK tells whether getPublicKey
\* yields the key of header.Kid (from the cache, or after its one refresh)
VerifyJWT(t, unix, keyOK) ==
    IF t.parts # 3 THEN [NoClaims EXCEPT !.err = "invalid jwt format"]
    ELSE IF t.alg # "RS256" THEN [NoClaims EXCEPT !.err = "unexpected signing algorithm"]
    ELSE IF t.kid = "" THEN [NoClaims EXCEPT !.err = "missing key id (kid)"]
    ELSE IF ~keyOK THEN [NoClaims EXCEPT !.err = "failed to refresh firebase certs"]
    ELSE IF t.signedBy # t.kid THEN [NoClaims EXCEPT !.err = "invalid jwt signature"]
    ELSE IF unix > t.exp THEN [NoClaims EXCEPT !.err = "token expired"]
    ELSE IF t.iat > unix + IatSkew THEN [NoClaims EXCEPT !.err = "token issued in the future"]
    ELSE IF t.aud # ProjectID THEN [NoClaims EXCEPT !.err = "invalid audience"]
    ELSE IF t.iss # Issuer THEN [NoClaims EXCEPT !.err = "invalid issuer"]
    ELSE IF t.sub = 0 \/ t.sub > MaxSubject THEN [NoClaims EXCEPT !.err = "invalid subject"]
    ELSE [ok |-> TRUE, Subject |-> t.sub, err |-> ""]

VerifyParked ==
    verify = [pc |-> "none", jwt |-> <<>>, unix |-> 0, keyOK |-> FALSE, res |-> NoClaims]

\* a caller is about to verify a token
VerifyInit ==
    \E t \in JWTs, unix \in VerifyTimes, keyOK \in BOOLEAN :
        verify = [pc |-> "call", jwt |-> t, unix |-> unix, keyOK |-> keyOK, res |-> NoClaims]

\* the call of VerifyToken
DoVerifyToken ==
    /\ verify.pc = "call"
    /\ verify' = [verify EXCEPT !.pc = "done",
                                !.res = VerifyJWT(verify.jwt, verify.unix, verify.keyOK)]
    /\ UNCHANGED <<Bots, sessVars, poolVars, directVars, keyVars, cacheVars, startVars, rd, rc>>

VerifyStep == DoVerifyToken

(***************************************************************************)
(* Metadata cache: Cache.Get / Set / Delete over a freecache, and the gob  *)
(* form of types.File                                                      *)
(***************************************************************************)
\* the zero value of a struct field, by its name
Zero(field) ==
    CASE field \in {"FileName", "MimeType", "LocationType", "ThumbSize"} -> ""
      [] field \in {"FileReference"} -> <<>>
      [] field = "LocationData" -> [x \in {} |-> 0]
      [] OTHER -> 0

\* gob encoding of a struct: the fields that are not zero, each with its value
GobStruct(s) == [x \in {y \in DOMAIN s : s[y] # Zero(y)} |-> s[x]]

\* gob decoding into a zeroed struct with the given fields
GobInto(fields, data) ==
    [x \in fields |-> IF x \in DOMAIN data THEN data[x] ELSE Zero(x)]

LocationFields == {"ID", "AccessHash", "FileReference", "ThumbSize"}
FileGobFields == {"LocationType", "LocationData", "FileSize", "FileName", "MimeType", "ID"}

\* the descriptors FileFromMedia builds; Location.type is the concrete type
\* behind the interface, "document" for *tg.InputDocumentFileLocation and
\* "photo" for *tg.InputPhotoFileLocation
Locations ==
    [type : {"document", "photo"}, ID : {0, 5}, AccessHash : {9},
     FileReference : {<<1>>}, ThumbSize : {""}]
Descriptors ==
    [Location : Locations, FileSize : {0, 4}, FileName : {"a.bin"},
     MimeType : {"application/octet-stream"}, ID : {7}]

\* the fields of the struct behind a Location
LocationStruct(loc) == [x \in LocationFields |-> loc[x]]

\* File.GobEncode
GobEncode(f) ==
    GobStruct([LocationType |-> f.Location.type,
               LocationData |-> GobStruct(LocationStruct(f.Location)),
               FileSize |-> f.FileSize, FileName |-> f.FileName,
               MimeType |-> f.MimeType, ID |-> f.ID])

\* File.GobDecode; ok is false for "unknown location type"
GobDecodeWrong(data) ==
    LET fg == GobInto(FileGobFields, data)
        loc == GobInto(LocationFields, fg.LocationData)
    IN [ok |-> fg.LocationType \in {"document", "photo"},
        file |-> [Location |-> [type |-> "document", ID |-> loc.ID,
                                AccessHash |-> loc.AccessHash,
                                FileReference |-> loc.FileReference,
                                ThumbSize |-> loc.ThumbSize],
                  FileSize |-> fg.FileSize, FileName |-> fg.FileName,
                  MimeType |-> fg.MimeType, ID |-> fg.ID]]
GobDecode(data) ==
    LET fg == GobInto(FileGobFields, data)
        loc == GobInto(LocationFields, fg.LocationData)
    IN [ok |-> fg.LocationType \in {"document", "photo"},
        file |-> [Location |-> [type |-> fg.LocationType, ID |-> loc.ID,
                                AccessHash |-> loc.AccessHash,
                                FileReference |-> loc.FileReference,
                                ThumbSize |-> loc.ThumbSize],
                  FileSize |-> fg.FileSize, FileName |-> fg.FileName,
                  MimeType |-> fg.MimeType, ID |-> fg.ID]]

CacheKeys == {"key1", "key2"}
ExpireSeconds == {0, 1}     \* 0: the entry does not expire

NoDescriptor == <<>>
NoCacheReturn == [op |-> "none", key |-> "", err |-> FALSE, value |-> NoDescriptor]

\* freecache: an entry with an expiry is gone once the clock has reached it
EntryExpired(e) == e.expireAt # 0 /\ e.expireAt <= now

Without(f, key) == [x \in (DOMAIN f) \ {key} |-> f[x]]
With(f, key, v) == [x \in (DOMAIN f) \cup {key} |-> IF x = key THEN v ELSE f[x]]

CacheParked ==
    /\ fcache = <<>>
    /\ live = <<>>
    /\ cret = NoCacheReturn

\* Cache.Set: gob-encode the descriptor and c.cache.Set with the ttl
Set(key, value, expireSeconds) ==
    /\ LET expireAt == IF expireSeconds > 0 THEN now + expireSeconds ELSE 0
       IN /\ fcache' = With(fcache, key, [data |-> GobEncode(value), expireAt |-> expireAt])
          /\ live' = With(live, key, [value |-> value, expireAt |-> expireAt])
    /\ cret' = [NoCacheReturn EXCEPT !.op = "set", !.key = key]
    /\ UNCHANGED <<Bots, sessVars, poolVars, directVars, keyVars, verify, startVars, rd, rc>>

\* Cache.Get: c.cache.Get and the gob decoding into the caller's File
Get(key) ==
    /\ IF key \in DOMAIN fcache /\ ~EntryExpired(fcache[key])
       THEN LET dec == GobDecode(fcache[key].data)
            IN cret' = [op |-> "get", key |-> key, err |-> ~dec.ok,
                        value |-> IF dec.ok THEN dec.file ELSE NoDescriptor]
       ELSE cret' = [NoCacheReturn EXCEPT !.op = "get", !.key = key, !.err = TRUE]
    /\ UNCHANGED <<fcache, live>>
    /\ UNCHANGED <<Bots, sessVars, poolVars, directVars, keyVars, verify, startVars, rd, rc>>

\* Cache.Delete: c.cache.Del
Delete(key) ==
    /\ fcache' = Without(fcache, key)
    /\ live' = Without(live, key)
    /\ cret' = [NoCacheReturn EXCEPT !.op = "delete", !.key = key]
    /\ UNCHANGED <<Bots, sessVars, poolVars, directVars, keyVars, verify, startVars, rd, rc>>

\* freecache makes room by evicting an entry
Evict(key) ==
    /\ key \in DOMAIN fcache
    /\ fcache' = Without(fcache, key)
    /\ live' = Without(live, key)
    /\ cret' = NoCacheReturn
    /\ UNCHANGED <<Bots, sessVars, poolVars, directVars, keyVars, verify, startVars, rd, rc>>

CacheStep ==
    \/ Tick
    \/ \E key \in CacheKeys, value \in Descriptors, ttl \in ExpireSeconds : Set(key, value, ttl)
    \/ \E key \in CacheKeys : Get(key)
    \/ \E key \in CacheKeys : Delete(key)
    \/ \E key \in CacheKeys : Evict(key)

(***************************************************************************)
(* Worker pool                                                             *)
(***************************************************************************)
ScoreWeight == 10000        \* score := (activeReqs * 10000) + totalReqs
MinScoreInit == 999999999   \* minScore := float64(999999999)

\* total_requests values a long-running worker can have reached
TotalValues == {0, 20000, MinScoreInit}

NoWorker == 0       \* the nil *Worker; a worker is named by its place in Bots

NewWorker(id, total) ==
    [ID |-> id, ActiveRequests |-> 0, TotalRequests |-> total, FailedRequests |-> 0]

\* the Worker that Add and AddDefaultClient build: Client is the token the
\* client was started with (0 is the main bot of AddDefaultClient)
AddedWorker(botID, token) ==
    [ID |-> botID, ActiveRequests |-> 0, TotalRequests |-> 0,
     FailedRequests |-> 0, Client |-> token]

\* client.Self.ID of the worker at place w: the account of its token
Account(w) == Bots[w].Client

\* score := (activeReqs * 10000) + totalReqs
Score(w) == (w.ActiveRequests * ScoreWeight) + w.TotalRequests

\* the scan loop of GetNextWorker / GetNextWorkerExcluding from pool place i on
RECURSIVE Scan(_, _, _, _, _)
Scan(bots, excludeIDs, i, minScore, selectedWorker) ==
    IF i > Len(bots) THEN selectedWorker
    ELSE IF bots[i].ID \in excludeIDs
         THEN Scan(bots, excludeIDs, i + 1, minScore, selectedWorker)
         ELSE IF Score(bots[i]) < minScore
              THEN Scan(bots, excludeIDs, i + 1, Score(bots[i]), i)
              ELSE Scan(bots, excludeIDs, i + 1, minScore, selectedWorker)

\* GetNextWorker: the worker it returns (NoWorker for an empty pool)
GetNextWorker(bots) ==
    IF Len(bots) = 0 THEN NoWorker ELSE Scan(bots, {}, 1, MinScoreInit, NoWorker)

\* GetNextWorker dereferences selectedWorker in its Debugf call: with a
\* non-empty pool and no worker selected the call panics
GetNextWorkerPanics(bots) == Len(bots) > 0 /\ GetNextWorker(bots) = NoWorker

\* GetNextWorkerExcluding: the worker it returns, or NoWorker
GetNextWorkerExcludingWrong(bots, excludeIDs) == GetNextWorker(bots)
GetNextWorkerExcluding(bots, excludeIDs) ==
    IF Len(bots) = 0 THEN NoWorker ELSE Scan(bots, excludeIDs, 1, MinScoreInit, NoWorker)

\* atomic.AddInt32(&w.metrics.ActiveRequests, delta)
AddActiveRequests(bots, i, delta) == [bots EXCEPT ![i].ActiveRequests = @ + delta]

\* atomic.AddInt64(&w.metrics.TotalRequests, 1)
AddTotalRequests(bots, i) == [bots EXCEPT ![i].TotalRequests = @ + 1]

\* if failed { atomic.AddInt64(&w.metrics.FailedRequests, 1) }
AddFailedRequests(bots, i, failed) ==
    [bots EXCEPT ![i].FailedRequests = IF failed THEN @ + 1 ELSE @]

\* Worker.StartRequest: the two atomic increments
StartRequest(bots, i) == AddTotalRequests(AddActiveRequests(bots, i, 1), i)

\* Worker.EndRequest: the atomic decrement and the failure count
EndRequestWrong(bots, i, failed) == AddFailedRequests(bots, i, failed)
EndRequest(bots, i, failed) == AddFailedRequests(AddActiveRequests(bots, i, -1), i, failed)

WorkerIDs(bots) == {bots[i].ID : i \in 1..Len(bots)}
AllIdle(bots) == \A i \in 1..Len(bots) : bots[i].ActiveRequests = 0

\* the pools StartWorkers and AddDefaultClient can leave behind: any number
\* of workers, IDs in the order the starts began, places in the order they
\* finished
Pools ==
    UNION {{[i \in 1..n |-> NewWorker(ids[i], tot[i])] :
               ids \in {f \in [1..n -> 1..n] : \A a, b \in 1..n : a # b => f[a] # f[b]},
               tot \in [1..n -> TotalValues]} : n \in 0..MaxWorkers}

NoSel == [op |-> "none", excludeIDs |-> {}, w |-> NoWorker, panic |-> FALSE]
NoRun == [fromIdle |-> FALSE, picked |-> <<>>, starts |-> 0]

PoolInit ==
    /\ Bots \in Pools
    /\ sel = NoSel
    /\ run = [fromIdle |-> TRUE, picked |-> <<>>, starts |-> 0]

\* a caller runs GetNextWorker
CallGetNextWorker ==
    /\ sel' = [op |-> "GetNextWorker", excludeIDs |-> {}, w |-> GetNextWorker(Bots),
               panic |-> GetNextWorkerPanics(Bots)]
    /\ UNCHANGED <<Bots, run>>
    /\ UNCHANGED <<sessVars, directVars, keyVars, auxVars>>

\* a caller runs GetNextWorkerExcluding(excludeIDs)
CallGetNextWorkerExcluding ==
    /\ \E ids \in SUBSET (1..MaxWorkers) :
          sel' = [op |-> "GetNextWorkerExcluding", excludeIDs |-> ids,
                  w |-> GetNextWorkerExcluding(Bots, ids), panic |-> FALSE]
    /\ UNCHANGED <<Bots, run>>
    /\ UNCHANGED <<sessVars, directVars, keyVars, auxVars>>

\* the caller starts a request on the worker the selection returned
StartSelected ==
    /\ sel.w # NoWorker
    /\ run.starts < MaxStarts
    /\ Bots' = StartRequest(Bots, sel.w)
    /\ run' = [fromIdle |-> run.fromIdle /\ sel.op = "GetNextWorker",
               picked |-> Append(run.picked, sel.w),
               starts |-> run.starts + 1]
    /\ sel' = NoSel
    /\ UNCHANGED <<sessVars, directVars, keyVars, auxVars>>

\* a started request ends
EndStarted ==
    /\ \E i \in 1..Len(Bots), failed \in BOOLEAN :
          /\ Bots[i].ActiveRequests > 0
          /\ Bots' = EndRequest(Bots, i, failed)
          /\ run' = [fromIdle |-> AllIdle(Bots'), picked |-> <<>>, starts |-> run.starts]
    /\ sel' = NoSel
    /\ UNCHANGED <<sessVars, directVars, keyVars, auxVars>>

PoolStep ==
    \/ CallGetNextWorker
    \/ CallGetNextWorkerExcluding
    \/ StartSelected
    \/ EndStarted

(***************************************************************************)
(* /direct stream handler                                                  *)
(***************************************************************************)
Reqs == {"A", "B"}          \* the requests in flight, named in order of arrival

\* the requests that arrive before request r
Earlier(r) == IF r = "B" THEN {"A"} ELSE {}

\* Service.Enabled: FirebaseProjectID != "", which the configuration defaults
\* to a project, so the session store is constructed and active
enabled == TRUE

\* errors of a descriptor fetch, by their text
ErrNotFound == "message not found in channel"
ErrUpstream == "failed to get message from channel"
ErrExhausted == "all workers exhausted"
ErrRetries == "failed to fetch file after 3 retries"
ErrAnyWorker == "failed to fetch file with any worker"
NoErr == ""

\* errStr == "message not found in channel" || errStr == "message was deleted ..."
IsHardError(e) == e = ErrNotFound

\* what one ChannelsGetMessages call can answer
FetchOutcomes == {NoErr, ErrUpstream, ErrNotFound}

maxRetries == 3             \* fetchFileWithRetry: maxRetries := 3

NoFile == [by |-> NoWorker, size |-> -1]

\* FileFromMedia: a document has its size, a photo has FileSize 0
FileOf(w) == [by |-> w, size |-> IF cfg.media = "photo" THEN 0 ELSE FileLen]

\* the locals of the descriptor fetch phase, before the phase has begun
NoFetch ==
    [tok |-> "none", primary |-> NoWorker, secondary |-> NoWorker, seen |-> {}, stage |-> "none",
     exclude |-> {}, retry |-> 0, cur |-> NoWorker, got |-> 0,
     firstErr |-> NoErr, err |-> NoErr]

NoRequest ==
    [pc |-> "idle", f |-> NoFetch, g |-> <<NoWorker, NoWorker>>,
     file |-> NoFile, selected |-> NoWorker, started |-> 0, ended |-> 0,
     status |-> 0, start |-> 0, end |-> -1, body |-> <<>>,
     k |-> -1, cancelled |-> FALSE, outcome |-> "none"]

\* ctx.JSON(status, ...) followed by return, before any worker was started
\* and before the deferred EndRequest and AddRequestLog are registered
AnswerWrong(r, status, outcome) ==
    [r EXCEPT !.pc = "end", !.status = status, !.outcome = outcome, !.f = NoFetch]
Answer(r, status, outcome) ==
    [r EXCEPT !.pc = "done", !.status = status, !.outcome = outcome, !.f = NoFetch]

DirectInit ==
    /\ cfg \in [mediaChannel : BOOLEAN, streamSecret : BOOLEAN,
                media : {"photo", "document"}]
    /\ \E n \in 1..MaxPool : Bots = [i \in 1..n |-> AddedWorker(n + 1 - i, i)]
    /\ req = [r \in Reqs |-> NoRequest]
    /\ cache = [i \in 1..Len(Bots) |-> NoFile]
    /\ requestLogs = 0

\* strconv.Atoi of the :messageID path parameter
Atoi(s) ==
    CASE s = "7" -> [ok |-> TRUE, n |-> 7]
      [] s = "0" -> [ok |-> TRUE, n |-> 0]
      [] s = "-1" -> [ok |-> TRUE, n |-> -1]
      [] OTHER -> [ok |-> FALSE, n |-> 0]

\* strconv.ParseInt(expiration, 10, 64)
ParseInt(s) ==
    CASE s = "1" -> [ok |-> TRUE, n |-> 1]
      [] s = "2" -> [ok |-> TRUE, n |-> 2]
      [] OTHER -> [ok |-> FALSE, n |-> 0]

\* config.ValueOf.StreamSecret
StreamSecret == IF cfg.streamSecret THEN "secret" ELSE ""

\* fmt.Sprintf("%d:%d", messageID, exp)
SignedData(messageID, exp) == <<messageID, exp>>

\* hex(HMAC-SHA256(secret, data)): a value that names its key and its data
\* (distinct keys or data give distinct signatures)
ComputeHMAC(secret, data) == <<secret>> \o data

EmptySig == <<>>            \* the empty sig parameter

\* the values of the sig and exp query parameters and the clock readings a
\* request is checked against
Sigs ==
    {EmptySig, ComputeHMAC("secret", SignedData(7, 1)), ComputeHMAC("secret", SignedData(7, 2)),
     ComputeHMAC("secret", SignedData(8, 2)), ComputeHMAC("other", SignedData(7, 2))}
Exps == {"", "x", "1", "2"}
UnixTimes == {1, 2}

\* the values of the :messageID path parameter, of the method and of the
\* session token of a request
MessageIDs == {"abc", "-1", "0", "7"}
Methods == {"GET", "HEAD"}
Toks == {"none", "expired", "valid"}

\* ValidateHMACSignature: the error it returns, NoErr for nil; unix is
\* time.Now().Unix()
ValidateHMACSignatureWrong(secret, messageID, signature, expiration, unix) ==
    IF secret = "" THEN NoErr
    ELSE IF signature = EmptySig \/ expiration = "" THEN "missing signature or expiration"
    ELSE IF ~ParseInt(expiration).ok THEN "invalid expiration timestamp"
    ELSE IF unix > ParseInt(expiration).n THEN "signature expired"
    ELSE IF signature[1] # secret THEN "invalid signature"
    ELSE NoErr
ValidateHMACSignature(secret, messageID, signature, expiration, unix) ==
    IF secret = "" THEN NoErr
    ELSE IF signature = EmptySig \/ expiration = "" THEN "missing signature or expiration"
    ELSE IF ~ParseInt(expiration).ok THEN "invalid expiration timestamp"
    ELSE IF unix > ParseInt(expiration).n THEN "signature expired"
    ELSE IF signature # ComputeHMAC(secret, SignedData(messageID, ParseInt(expiration).n))
         THEN "invalid signature"
    ELSE NoErr

\* The router and the head of the handler, for request r with the given
\* method, path parameter, session token and query parameters: the route is
\* registered for GET only; MEDIA_CHANNEL_ID, strconv.Atoi of the id, the
\* signature check, and primaryWorker := bot.GetNextWorker().
\* tok is the stream session token the request carries, kept up to the
\* selection of the workers.
BeginRequest(r, method, id, tok, sig, exp, unix) ==
    IF method # "GET" THEN Answer(r, 404, "no route")
    ELSE IF ~cfg.mediaChannel THEN Answer(r, 500, "not configured")
    ELSE IF ~Atoi(id).ok THEN Answer(r, 400, "invalid message ID")
    ELSE IF StreamSecret # "" /\
            ValidateHMACSignature(StreamSecret, Atoi(id).n, sig, exp, unix) # NoErr
         THEN Answer(r, 401, "unauthorized")
    ELSE IF GetNextWorkerPanics(Bots)
         THEN Answer(r, 500, "panic")
    ELSE IF GetNextWorker(Bots) = NoWorker
         THEN Answer(r, 503, "no workers")
    ELSE [r EXCEPT !.pc = "secondary", !.f.tok = tok,
                   !.f.primary = GetNextWorker(Bots),
                   !.f.seen = {Bots[GetNextWorker(Bots)].ID}]

\* a request arrives and runs the head of the handler; the query parameters
\* and the clock are read only when the signature check is reached, which is
\* when the request without sig and exp is answered 401
Begin(r) ==
    /\ req[r].pc = "idle"
    /\ \A e \in Earlier(r) : req[e].pc # "idle"
    /\ \E method \in Methods, id \in MessageIDs, tok \in Toks :
          IF BeginRequest(req[r], method, id, tok, EmptySig, "", 1).status # 401
          THEN req' = [req EXCEPT ![r] = BeginRequest(@, method, id, tok, EmptySig, "", 1)]
          ELSE \E sig \in Sigs, exp \in Exps, unix \in UnixTimes :
                  req' = [req EXCEPT ![r] = BeginRequest(@, method, id, tok, sig, exp, unix)]
    /\ UNCHANGED <<Bots, cache, requestLogs, cfg>>
    /\ UNCHANGED <<sessVars, poolVars, keyVars, auxVars>>

\* secondary := bot.GetNextWorkerExcluding(seenWorkerIDs), then the start of
\* fetchFileWithRace: two goroutines, or fetchFileWithRetry on the only worker
SelectSecondary(r) ==
    /\ req[r].pc = "secondary"
    /\ LET secondary == GetNextWorkerExcluding(Bots, req[r].f.seen)
       IN req' = [req EXCEPT ![r] =
            IF secondary # NoWorker
            THEN [@ EXCEPT !.pc = "race", !.f.tok = "none", !.f.secondary = secondary,
                           !.f.seen = @ \cup {Bots[secondary].ID},
                           !.f.stage = "race",
                           !.g = <<req[r].f.primary, secondary>>]
            ELSE [@ EXCEPT !.pc = "try", !.f.tok = "none", !.f.stage = "single",
                           !.f.cur = req[r].f.primary,
                           !.f.exclude = {Bots[req[r].f.primary].ID}]]
    /\ UNCHANGED <<Bots, cache, requestLogs, cfg>>
    /\ UNCHANGED <<sessVars, poolVars, keyVars, auxVars>>

\* FileFromMessageAndChannel on worker w: the descriptor a cache hit yields,
\* else the answers of ChannelsGetMessages
FetchResults(w) ==
    IF cache[Account(w)] # NoFile THEN {[file |-> cache[Account(w)], w |-> w, err |-> NoErr]}
    ELSE {[file |-> IF e = NoErr THEN FileOf(w) ELSE NoFile, w |-> w, err |-> e] :
            e \in FetchOutcomes}

\* FileFromMessageAndChannel on worker w: cache.Set after a successful fetch
CacheSet(w, res) ==
    IF res.err = NoErr THEN [cache EXCEPT ![Account(w)] = res.file] ELSE cache

\* the error the handler maps to 404 or 502 when the fetch phase has failed
FetchFailed(r, e) ==
    Answer(r, IF IsHardError(e) THEN 404 ELSE 502, "fetch failed")

\* fetchFileWithRace / fetchFileWithRetry has returned the error e
FetchReturnsError(r, e) ==
    IF r.f.stage = "fallback" THEN FetchFailed(r, e)
    ELSE [r EXCEPT !.pc = "fallback", !.f.err = e]

\* fetchFileWithRace returns the first success it receives
RaceReturnsWrong(r, res) == r.f.got = 0 /\ res.err = NoErr /\ res.file # NoFile
RaceReturns(r, res) == res.err = NoErr /\ res.file # NoFile

\* fetchFileWithRace: the pass of the receive loop that takes res from the
\* results channel
RaceReceive(r, res) ==
    LET firstErr == IF r.f.firstErr = NoErr THEN res.err ELSE r.f.firstErr
        q == [r EXCEPT !.f.got = @ + 1]
    IN IF RaceReturns(r, res)
       THEN [q EXCEPT !.pc = "start", !.file = res.file, !.selected = res.w]
       ELSE IF q.f.got < 2
            THEN [q EXCEPT !.f.firstErr = firstErr]
            ELSE FetchReturnsError([q EXCEPT !.f.firstErr = firstErr],
                                   IF firstErr = NoErr THEN ErrAnyWorker ELSE firstErr)

\* race goroutine j: FileFromMessageAndChannel on its worker (bounded by the
\* 5 s timeout and the cancel of the race) and the send on the buffered
\* results channel; the receive loop, which does nothing else, takes the
\* result at once, and nobody reads it once fetchFileWithRace has returned
RaceFetch(r, j) ==
    /\ req[r].g[j] # NoWorker
    /\ \E res \in FetchResults(req[r].g[j]) :
          /\ req' = [req EXCEPT ![r] =
                IF req[r].pc = "race"
                THEN RaceReceive([@ EXCEPT !.g[j] = NoWorker], res)
                ELSE [@ EXCEPT !.g[j] = NoWorker]]
          /\ cache' = CacheSet(req[r].g[j], res)
    /\ UNCHANGED <<Bots, requestLogs, cfg>>
    /\ UNCHANGED <<sessVars, poolVars, keyVars, auxVars>>

\* handler after a failed fetchFileWithRace: GetNextWorkerExcluding(seen),
\* then fetchFileWithRetry on the fallback worker with exclude = seen
Fallback(r) ==
    /\ req[r].pc = "fallback"
    /\ LET fallbackWorker == GetNextWorkerExcluding(Bots, req[r].f.seen)
       IN req' = [req EXCEPT ![r] =
            IF fallbackWorker = NoWorker THEN FetchFailed(@, req[r].f.err)
            ELSE [@ EXCEPT !.pc = "try", !.f.stage = "fallback",
                           !.f.cur = fallbackWorker, !.f.retry = 0,
                           !.f.seen = @ \cup {Bots[fallbackWorker].ID},
                           !.f.exclude = req[r].f.seen \cup {Bots[fallbackWorker].ID}]]
    /\ UNCHANGED <<Bots, cache, requestLogs, cfg>>
    /\ UNCHANGED <<sessVars, poolVars, keyVars, auxVars>>

\* fetchFileWithRetry: tryOnce on the current worker; on a soft failure the
\* next pass of the retry loop picks GetNextWorkerExcluding(excludeWorkers)
TryOnce(r) ==
    /\ req[r].pc = "try"
    /\ LET w == req[r].f.cur
           fallbackWorker == GetNextWorkerExcluding(Bots, req[r].f.exclude)
       IN \E res \in FetchResults(w) :
            /\ req' = [req EXCEPT ![r] =
                 IF res.err = NoErr
                 THEN [@ EXCEPT !.pc = "start", !.file = res.file, !.selected = w]
                 ELSE IF IsHardError(res.err) THEN FetchReturnsError(@, res.err)
                 ELSE IF req[r].f.retry >= maxRetries THEN FetchReturnsError(@, ErrRetries)
                 ELSE IF fallbackWorker = NoWorker THEN FetchReturnsError(@, ErrExhausted)
                 ELSE [@ EXCEPT !.f.cur = fallbackWorker, !.f.retry = @ + 1,
                                !.f.exclude = @ \cup {Bots[fallbackWorker].ID}]]
            /\ cache' = CacheSet(w, res)
    /\ UNCHANGED <<Bots, requestLogs, cfg>>
    /\ UNCHANGED <<sessVars, poolVars, keyVars, auxVars>>

\* the worker the handler calls StartRequest on: selectedWorker, the worker
\* the fetch phase returned together with the descriptor
StartedWorkerWrong(r) == IF r.f.primary # NoWorker THEN r.f.primary ELSE r.selected
StartedWorker(r) == r.selected

\* selectedWorker.StartRequest() and the registration of the deferred
\* EndRequest; the locals of the fetch phase are dead from here on
DoStartRequest(r) ==
    /\ req[r].pc = "start"
    /\ Bots' = StartRequest(Bots, StartedWorker(req[r]))
    /\ req' = [req EXCEPT ![r] =
          [@ EXCEPT !.pc = "serve", !.f = NoFetch, !.started = @ + 1]]
    /\ UNCHANGED <<cache, requestLogs, cfg>>
    /\ UNCHANGED <<sessVars, poolVars, keyVars, auxVars>>

\* bytes a..b of the media file, each byte named by its position
Slice(a, b) == [i \in 1..(IF b >= a THEN b - a + 1 ELSE 0) |-> a + i - 1]

Min(a, b) == IF a <= b THEN a ELSE b

\* ranged reader: offset of its first upstream read, floor(start/chunk)*chunk
FirstOffsetWrong(start) == start
FirstOffset(start) == (start \div ChunkLen) * ChunkLen

\* ranged reader: number of upstream reads that cover [start, end]
NumReads(start, end) == ((end - FirstOffset(start)) \div ChunkLen) + 1

\* ranged reader: the bytes it has yielded once j upstream reads succeeded
\* (first chunk sliced at start, last chunk trimmed at end)
Delivered(start, end, j) ==
    Slice(start, Min(end, FirstOffset(start) + (j * ChunkLen) - 1))

\* a reader NewTelegramReader(ctx, client, location, start, end, contentLength)
\* that has made no upstream read yet
NewReader(start, end) ==
    [pc |-> "read", start |-> start, end |-> end, contentLength |-> end - start + 1,
     reads |-> <<>>, out |-> <<>>]

ReaderParked == rd = [NewReader(0, 0) EXCEPT !.pc = "none"]

\* the handler builds the reader for a range that ParseRange accepted
ReaderInit == \E start \in 0..MaxOffset, end \in 0..MaxOffset :
                  start <= end /\ rd = NewReader(start, end)

\* the upstream read the reader issues next: j reads were made before it
NextRead(start, j) == [offset |-> FirstOffset(start) + (j * ChunkLen), limit |-> ChunkLen]

\* the reader issues its next upstream read and yields the bytes of the chunk,
\* or surfaces the upstream error
ReadChunk(ok) ==
    /\ rd.pc = "read"
    /\ LET j == Len(rd.reads)
       IN rd' = [rd EXCEPT !.reads = Append(@, NextRead(rd.start, j)),
                           !.out = IF ok THEN Delivered(rd.start, rd.end, j + 1) ELSE @,
                           !.pc = IF ~ok THEN "error"
                                  ELSE IF j + 1 = NumReads(rd.start, rd.end) THEN "eof"
                                  ELSE "read"]
    /\ UNCHANGED <<Bots, sessVars, poolVars, directVars, keyVars, verify, cacheVars, startVars, rc>>

ReaderStep == \E ok \in BOOLEAN : ReadChunk(ok)

\* the ResponseWriter refuses a Write that would pass the declared
\* Content-Length: of the first `up` reads, the last whose bytes still fit
\* after `written` bytes
Accepted(start, end, written, up) ==
    CHOOSE j \in 0..up :
        /\ written + Len(Delivered(start, end, j)) <= end - start + 1
        /\ \A i \in (j + 1)..up :
              written + Len(Delivered(start, end, i)) > end - start + 1

\* the status w.Status() reports after ctx.JSON(code, ...): gin records the
\* code, or keeps the earlier one when the body has begun, by its version
StatusAfter(r, code) == IF r.body = <<>> THEN {code} ELSE {code, r.status}

\* leave the handler: the deferred EndRequest and AddRequestLog come next
Finish(r, outcome) == [r EXCEPT !.pc = "end", !.outcome = outcome]

\* the copy failed and ctx.Request.Context().Err() != nil: a warning, return
DisconnectedWrong(q) ==
    [q EXCEPT !.pc = "refetch", !.k = Len(q.body), !.cancelled = TRUE]
Disconnected(q) == [Finish(q, "client disconnected") EXCEPT !.cancelled = TRUE]

PhotoBytes == <<0>>         \* the inline blob of a photo

\* range_parser.Parse of the Range header against the file size
ParseRange(rng, size) ==
    IF rng = "none" THEN [ok |-> TRUE, start |-> 0, end |-> size - 1, status |-> 200]
    ELSE IF rng = "bytes=1-2" /\ size > 2
         THEN [ok |-> TRUE, start |-> 1, end |-> 2, status |-> 206]
         ELSE [ok |-> FALSE, start |-> 0, end |-> -1, status |-> 400]

\* what one upload.getFile call of the inline path can answer
GetFileOutcomes == {"ok", "FILE_REFERENCE_EXPIRED", "error"}

\* the inline path (FileSize == 0): UploadGetFile(offset 0, limit 1 MiB)
ServePhoto(r) ==
    /\ req[r].pc = "serve"
    /\ req[r].file.size = 0
    /\ \E o \in GetFileOutcomes :
          req' = [req EXCEPT ![r] =
              IF o = "ok" THEN [Finish(@, "ok") EXCEPT !.status = 200, !.body = PhotoBytes]
              ELSE IF o = "FILE_REFERENCE_EXPIRED"
                   THEN [@ EXCEPT !.pc = "refetch", !.k = 0]
                   ELSE [Finish(@, "stream error") EXCEPT !.status = 500]]
    /\ UNCHANGED <<Bots, cache, requestLogs, cfg>>
    /\ UNCHANGED <<sessVars, poolVars, keyVars, auxVars>>

\* the ranged path up to the first io.CopyN: the Range header, the response
\* headers, NewTelegramReader, and the copy of contentLength bytes; `up` is
\* the number of upstream reads served before the copy stops (a reader that
\* cannot be constructed ends the handler like an error before the first read)
ServeRange(r) ==
    /\ req[r].pc = "serve"
    /\ req[r].file.size # 0
    /\ \E rng \in {"none", "bytes=1-2", "bad"} :
        LET rg == ParseRange(rng, req[r].file.size)
            n == NumReads(rg.start, rg.end)
        IN IF ~rg.ok
           THEN req' = [req EXCEPT ![r] = [Finish(@, "invalid range") EXCEPT !.status = 400]]
           ELSE \E up \in 0..n, why \in {"copied", "FILE_REFERENCE_EXPIRED", "error", "gone"} :
                  /\ (why = "copied") <=> (up = n)
                  /\ req' = [req EXCEPT ![r] =
                       LET q == [@ EXCEPT !.status = rg.status, !.start = rg.start,
                                          !.end = rg.end,
                                          !.body = Delivered(rg.start, rg.end, up)]
                       IN IF why = "copied" THEN Finish(q, "ok")
                          ELSE IF why = "gone"
                               THEN Disconnected(q)
                          ELSE IF why = "FILE_REFERENCE_EXPIRED"
                               THEN [q EXCEPT !.pc = "refetch", !.k = Len(q.body)]
                               ELSE Finish(q, "stream error")]
    /\ UNCHANGED <<Bots, cache, requestLogs, cfg>>
    /\ UNCHANGED <<sessVars, poolVars, keyVars, auxVars>>

\* RefetchFileFromMessageAndChannel: cache.Delete of the worker's key
RefetchDelete(r) ==
    /\ req[r].pc = "refetch"
    /\ cache' = [cache EXCEPT ![Account(req[r].selected)] = NoFile]
    /\ req' = [req EXCEPT ![r] = [@ EXCEPT !.pc = "refetch2"]]
    /\ UNCHANGED <<Bots, requestLogs, cfg>>
    /\ UNCHANGED <<sessVars, poolVars, keyVars, auxVars>>

\* RefetchFileFromMessageAndChannel -> FileFromMessageAndChannel with the
\* background context; a failure is answered with ctx.JSON(500)
RefetchFetch(r) ==
    /\ req[r].pc = "refetch2"
    /\ \E res \in FetchResults(req[r].selected) :
          /\ \E code \in StatusAfter(req[r], 500) :
                req' = [req EXCEPT ![r] =
                   IF res.err = NoErr THEN [@ EXCEPT !.pc = "retry", !.file = res.file]
                   ELSE [Finish(@, "refetch failed") EXCEPT !.status = code]]
          /\ cache' = CacheSet(req[r].selected, res)
    /\ UNCHANGED <<Bots, requestLogs, cfg>>
    /\ UNCHANGED <<sessVars, poolVars, keyVars, auxVars>>

\* the inline path after the refetch: UploadGetFile once more
RetryPhoto(r) ==
    /\ req[r].pc = "retry"
    /\ req[r].file.size = 0
    /\ \E o \in GetFileOutcomes :
          req' = [req EXCEPT ![r] =
              IF o = "ok"
              THEN [Finish(@, "ok after refetch") EXCEPT !.status = 200, !.body = PhotoBytes]
              ELSE [Finish(@, "stream error") EXCEPT !.status = 500]]
    /\ UNCHANGED <<Bots, cache, requestLogs, cfg>>
    /\ UNCHANGED <<sessVars, poolVars, keyVars, auxVars>>

\* the ranged path after the refetch: NewTelegramReader(ctx, client,
\* location, start, end, contentLength) and io.CopyN of contentLength bytes
\* once more; `up` is the number of upstream reads the second reader is served
RetryRangeWrong(r) ==
    /\ req[r].pc = "retry"
    /\ req[r].file.size # 0
    /\ LET n == NumReads(req[r].start, req[r].end)
           len == req[r].end - req[r].start + 1
       IN \E up \in 0..n, gone \in BOOLEAN :
            LET j == Accepted(req[r].start, req[r].end, req[r].k, up)
                q == [req[r] EXCEPT !.body = @ \o Delivered(req[r].start, req[r].end, j)]
            IN req' = [req EXCEPT ![r] =
                 IF gone THEN Disconnected(q)
                 ELSE IF j < up THEN Finish(q, "content length")
                 ELSE IF up < n THEN [q EXCEPT !.pc = "refetch", !.k = Len(q.body)]
                 ELSE IF Len(q.body) = len THEN Finish(q, "ok after refetch")
                 ELSE Finish(q, "content length")]
    /\ UNCHANGED <<Bots, cache, requestLogs, cfg>>
    /\ UNCHANGED <<sessVars, poolVars, keyVars, auxVars>>
RetryRange(r) ==
    /\ req[r].pc = "retry"
    /\ req[r].file.size # 0
    /\ LET n == NumReads(req[r].start, req[r].end)
           len == req[r].end - req[r].start + 1
       IN \E up \in 0..n, gone \in BOOLEAN :
            LET j == Accepted(req[r].start, req[r].end, req[r].k, up)
                q == [req[r] EXCEPT !.body = @ \o Delivered(req[r].start, req[r].end, j)]
            IN req' = [req EXCEPT ![r] =
                 IF gone THEN Disconnected(q)
                 ELSE IF j < up THEN Finish(q, "content length")
                 ELSE IF up < n THEN Finish(q, "stream error")
                 ELSE IF Len(q.body) = len THEN Finish(q, "ok after refetch")
                 ELSE Finish(q, "content length")]
    /\ UNCHANGED <<Bots, cache, requestLogs, cfg>>
    /\ UNCHANGED <<sessVars, poolVars, keyVars, auxVars>>

\* failed := w.Status() >= 400
Failed(r) == r.status >= 400

\* the deferred function: selectedWorker.EndRequest(failed), AddRequestLog;
\* the response is complete and the locals of the handler are gone
DoEndRequest(r) ==
    /\ req[r].pc = "end"
    /\ Bots' = EndRequest(Bots, req[r].selected, Failed(req[r]))
    /\ requestLogs' = requestLogs + 1
    /\ req' = [req EXCEPT ![r] =
          [NoRequest EXCEPT !.pc = "done", !.g = req[r].g, !.status = req[r].status,
                            !.started = req[r].started, !.ended = req[r].ended + 1]]
    /\ UNCHANGED <<cache, cfg>>
    /\ UNCHANGED <<sessVars, poolVars, keyVars, auxVars>>

DirectStep ==
    \/ \E r \in Reqs : Begin(r)
    \/ \E r \in Reqs : SelectSecondary(r)
    \/ \E r \in Reqs, j \in {1, 2} : RaceFetch(r, j)
    \/ \E r \in Reqs : Fallback(r)
    \/ \E r \in Reqs : TryOnce(r)
    \/ \E r \in Reqs : DoStartRequest(r)
    \/ \E r \in Reqs : ServePhoto(r)
    \/ \E r \in Reqs : ServeRange(r)
    \/ \E r \in Reqs : RefetchDelete(r)
    \/ \E r \in Reqs : RefetchFetch(r)
    \/ \E r \in Reqs : RetryPhoto(r)
    \/ \E r \in Reqs : RetryRange(r)
    \/ \E r \in Reqs : DoEndRequest(r)

(***************************************************************************)
(* Worker start-up (package bot, StartWorkers and Workers.Add)             *)
(***************************************************************************)
maxConcurrent == 3      \* const maxConcurrent = 3
maxRetriesStart == 3    \* const maxRetries = 3 of StartWorkers

NoStart == [pc |-> "init", totalBots |-> 0, attempt |-> 0, failedIndices |-> {},
            results |-> <<>>, successfulStarts |-> 0, timeouts |-> 0, failures |-> 0,
            defaultID |-> 0, bots |-> <<>>]

\* a goroutine of startBatch: waiting for the semaphore, in the select, or ended
NewGoroutine == [pc |-> "wait", done |-> "none"]

StartParked ==
    /\ starting = 0
    /\ sw = NoStart
    /\ gor = <<>>
    /\ adds = {}

\* run.go calls StartWorkers once, on the empty pool, with the configured tokens
StartInit ==
    /\ starting = 0
    /\ \E n \in 0..MaxBots : sw = [NoStart EXCEPT !.totalBots = n]
    /\ gor = <<>>
    /\ adds = {}
    /\ Bots = <<>>

\* the slots of sem that are taken
Held == {i \in DOMAIN gor : gor[i].pc = "select"}

\* the calls of Workers.Add that have started and not yet returned
AddsInProgress == {a \in adds : a.pc # "inc"}

\* StartWorkers up to the retry loop: no tokens, the sessions directory, allIndices
StartBegin ==
    /\ sw.pc = "init"
    /\ IF sw.totalBots = 0
       THEN sw' = [sw EXCEPT !.pc = "returned"] /\ gor' = gor
       ELSE \E UseSessionFile \in BOOLEAN, mkdirOK \in BOOLEAN :
              IF UseSessionFile /\ ~mkdirOK
              THEN sw' = [sw EXCEPT !.pc = "error"] /\ gor' = gor
              ELSE /\ sw' = [sw EXCEPT !.pc = "batch", !.failedIndices = 1..sw.totalBots]
                   /\ gor' = [i \in 1..sw.totalBots |-> NewGoroutine]
    /\ UNCHANGED <<starting, adds, Bots>>
    /\ UNCHANGED <<sessVars, poolVars, directVars, keyVars, verify, cacheVars, rd, rc>>

\* sem <- struct{}{} and the launch of the goroutine that calls Workers.Add
Acquire(i) ==
    /\ sw.pc = "batch"
    /\ i \in DOMAIN gor
    /\ gor[i].pc = "wait"
    /\ Cardinality(Held) < maxConcurrent
    /\ gor' = [gor EXCEPT ![i].pc = "select"]
    /\ adds' = adds \cup {[idx |-> i, attempt |-> sw.attempt, pc |-> "inc",
                           botID |-> 0, bots |-> <<>>]}
    /\ UNCHANGED <<starting, sw, Bots>>
    /\ UNCHANGED <<sessVars, poolVars, directVars, keyVars, verify, cacheVars, rd, rc>>

Moved(a, pc) == (adds \ {a}) \cup {[a EXCEPT !.pc = pc]}

\* Add: w.incStarting()
AddInc(a) ==
    /\ a \in adds
    /\ a.pc = "inc"
    /\ starting' = starting + 1
    /\ adds' = Moved(a, "read")
    /\ UNCHANGED <<sw, gor, Bots>>
    /\ UNCHANGED <<sessVars, poolVars, directVars, keyVars, verify, cacheVars, rd, rc>>

\* Add: var botID int = w.starting, read after the mutex is released
AddRead(a) ==
    /\ a \in adds
    /\ a.pc = "read"
    /\ adds' = (adds \ {a}) \cup {[a EXCEPT !.pc = "connect", !.botID = starting]}
    /\ UNCHANGED <<starting, sw, gor, Bots>>
    /\ UNCHANGED <<sessVars, poolVars, directVars, keyVars, verify, cacheVars, rd, rc>>

\* the value Add sends on done reaches the goroutine only while it is in its select
Sent(a, err) ==
    IF sw.pc = "batch" /\ sw.attempt = a.attempt /\ gor[a.idx].pc = "select"
    THEN [gor EXCEPT ![a.idx].done = err]
    ELSE gor

\* Add: startWorker returns; with an error Add returns it, otherwise
\* append(w.Bots, worker) reads w.Bots, without holding w.mut
AddConnect(a, ok) ==
    /\ a \in adds
    /\ a.pc = "connect"
    /\ IF ok
       THEN /\ adds' = (adds \ {a}) \cup {[a EXCEPT !.pc = "store", !.bots = Bots]}
            /\ gor' = gor
            /\ sw' = sw
       ELSE /\ sw.timeouts + sw.failures < MaxFailures
            /\ adds' = adds \ {a}
            /\ gor' = Sent(a, "err")
            /\ sw' = [sw EXCEPT !.failures = @ + 1]
    /\ UNCHANGED <<starting, Bots>>
    /\ UNCHANGED <<sessVars, poolVars, directVars, keyVars, verify, cacheVars, rd, rc>>

\* Add: w.Bots = the appended slice, and return nil
AddAppendStore(a) ==
    /\ a \in adds
    /\ a.pc = "store"
    /\ Bots' = Append(a.bots, AddedWorker(a.botID, a.idx))
    /\ adds' = adds \ {a}
    /\ gor' = Sent(a, "ok")
    /\ UNCHANGED <<starting, sw>>
    /\ UNCHANGED <<sessVars, poolVars, directVars, keyVars, verify, cacheVars, rd, rc>>

Ended(i, result) ==
    /\ gor' = [gor EXCEPT ![i].pc = "end"]
    /\ sw' = [sw EXCEPT !.results = With(sw.results, i, result),
                        !.timeouts = IF result = "timeout" THEN @ + 1 ELSE @]

\* case err := <-done, then the semaphore is released
Receive(i) ==
    /\ sw.pc = "batch"
    /\ i \in DOMAIN gor
    /\ gor[i].pc = "select"
    /\ gor[i].done # "none"
    /\ Ended(i, gor[i].done)
    /\ UNCHANGED <<starting, adds, Bots>>
    /\ UNCHANGED <<sessVars, poolVars, directVars, keyVars, verify, cacheVars, rd, rc>>

\* case <-ctx.Done(), then the semaphore is released; the Add call goes on
Timeout(i) ==
    /\ sw.pc = "batch"
    /\ i \in DOMAIN gor
    /\ gor[i].pc = "select"
    /\ sw.timeouts + sw.failures < MaxTimeouts
    /\ Ended(i, "timeout")
    /\ UNCHANGED <<starting, adds, Bots>>
    /\ UNCHANGED <<sessVars, poolVars, directVars, keyVars, verify, cacheVars, rd, rc>>

\* wg.Wait returns; the results loop, and the next pass or the return
EndBatch ==
    /\ sw.pc = "batch"
    /\ \A i \in DOMAIN gor : gor[i].pc = "end"
    /\ LET newFailed == {i \in DOMAIN gor : sw.results[i] # "ok"}
           started == Cardinality(DOMAIN gor) - Cardinality(newFailed)
       IN IF newFailed = {} \/ sw.attempt = maxRetriesStart
          THEN /\ sw' = [sw EXCEPT !.pc = "returned", !.failedIndices = newFailed,
                                   !.successfulStarts = @ + started]
               /\ gor' = gor
          ELSE /\ sw' = [sw EXCEPT !.attempt = @ + 1, !.failedIndices = newFailed,
                                   !.results = <<>>,
                                   !.successfulStarts = @ + started]
               /\ gor' = [i \in newFailed |-> NewGoroutine]
    /\ UNCHANGED <<starting, adds, Bots>>
    /\ UNCHANGED <<sessVars, poolVars, directVars, keyVars, verify, cacheVars, rd, rc>>

\* run.go calls AddDefaultClient when StartWorkers has returned; Adds that
\* were abandoned by a timeout may still be running.
\* AddDefaultClient: w.incStarting()
AddDefaultInc ==
    /\ sw.pc = "returned"
    /\ starting' = starting + 1
    /\ sw' = [sw EXCEPT !.pc = "defaultRead"]
    /\ UNCHANGED <<gor, adds, Bots>>
    /\ UNCHANGED <<sessVars, poolVars, directVars, keyVars, verify, cacheVars, rd, rc>>

\* AddDefaultClient: ID: w.starting, read without the mutex
AddDefaultRead ==
    /\ sw.pc = "defaultRead"
    /\ sw' = [sw EXCEPT !.pc = "defaultAppend", !.defaultID = starting]
    /\ UNCHANGED <<starting, gor, adds, Bots>>
    /\ UNCHANGED <<sessVars, poolVars, directVars, keyVars, verify, cacheVars, rd, rc>>

\* AddDefaultClient: append(w.Bots, worker) reads w.Bots
AddDefaultAppend ==
    /\ sw.pc = "defaultAppend"
    /\ sw' = [sw EXCEPT !.pc = "defaultStore", !.bots = Bots]
    /\ UNCHANGED <<starting, gor, adds, Bots>>
    /\ UNCHANGED <<sessVars, poolVars, directVars, keyVars, verify, cacheVars, rd, rc>>

\* AddDefaultClient: w.Bots = the appended slice
AddDefaultStore ==
    /\ sw.pc = "defaultStore"
    /\ Bots' = Append(sw.bots, AddedWorker(sw.defaultID, 0))
    /\ sw' = [sw EXCEPT !.pc = "done", !.bots = <<>>]
    /\ UNCHANGED <<starting, gor, adds>>
    /\ UNCHANGED <<sessVars, poolVars, directVars, keyVars, verify, cacheVars, rd, rc>>

StartStep ==
    \/ StartBegin
    \/ \E i \in 1..MaxBots : Acquire(i)
    \/ \E a \in adds : AddInc(a)
    \/ \E a \in adds : AddRead(a)
    \/ \E a \in adds, ok \in BOOLEAN : AddConnect(a, ok)
    \/ \E a \in adds : AddAppendStore(a)
    \/ \E i \in 1..MaxBots : Receive(i)
    \/ \E i \in 1..MaxBots : Timeout(i)
    \/ EndBatch
    \/ AddDefaultInc
    \/ AddDefaultRead
    \/ AddDefaultAppend
    \/ AddDefaultStore

(***************************************************************************)
(* fetchFileWithRace with two workers: its goroutines, the results channel *)
(* and the receive loop                                                    *)
(***************************************************************************)
\* the places of workers in the slice the handler passes: primary, secondary
RacedWorkers == {1, 2}

ErrCanceled == "context canceled"

\* results := make(chan result, len(workers))
ResultsCapWrong(workers) == Cardinality(workers) - 1
ResultsCap(workers) == Cardinality(workers)

NoRace ==
    [pc |-> "none", i |-> 0, ch |-> <<>>, g |-> <<>>, cancelled |-> FALSE,
     firstErr |-> NoErr, out |-> [w |-> NoWorker, err |-> NoErr]]

RaceParked == rc = NoRace

\* the goroutines are started and the receive loop begins
RaceInit ==
    rc = [NoRace EXCEPT !.pc = "recv",
                        !.g = [j \in RacedWorkers |-> [pc |-> "fetch", err |-> NoErr]]]

\* goroutine j: FileFromMessageAndChannel under the attempt context (5 s
\* timeout, cancelled with the race) has returned
GoFetch(j) ==
    /\ rc.g[j].pc = "fetch"
    /\ \E e \in FetchOutcomes \cup (IF rc.cancelled THEN {ErrCanceled} ELSE {}) :
          rc' = [rc EXCEPT !.g[j] = [pc |-> "send", err |-> e]]
    /\ UNCHANGED <<Bots, sessVars, poolVars, directVars, keyVars, verify, cacheVars, startVars, rd>>

\* goroutine j: results <- result{...}, which blocks while the buffer is
\* full, and the end of the goroutine
GoSend(j) ==
    /\ rc.g[j].pc = "send"
    /\ Len(rc.ch) < ResultsCap(RacedWorkers)
    /\ rc' = [rc EXCEPT !.ch = Append(@, [w |-> j, err |-> rc.g[j].err]),
                        !.g[j].pc = "end"]
    /\ UNCHANGED <<Bots, sessVars, poolVars, directVars, keyVars, verify, cacheVars, startVars, rd>>

\* one pass of the receive loop: res := <-results; a success cancels the
\* race and returns, the last failure returns firstErr (the deferred cancel).
\* The case <-ctx.Done() of the select is never ready: ctx is derived from
\* context.Background() and cancelled by this function only when it returns.
RaceRecv ==
    /\ rc.pc = "recv"
    /\ rc.ch # <<>>
    /\ LET res == Head(rc.ch)
           firstErr == IF rc.firstErr = NoErr THEN res.err ELSE rc.firstErr
       IN rc' = IF res.err = NoErr
                THEN [rc EXCEPT !.ch = Tail(@), !.pc = "returned", !.cancelled = TRUE,
                                !.out = res]
                ELSE IF rc.i + 1 < Cardinality(RacedWorkers)
                     THEN [rc EXCEPT !.ch = Tail(@), !.i = @ + 1, !.firstErr = firstErr]
                     ELSE [rc EXCEPT !.ch = Tail(@), !.i = @ + 1, !.firstErr = firstErr,
                                     !.pc = "returned", !.cancelled = TRUE,
                                     !.out = [w |-> NoWorker, err |-> firstErr]]
    /\ UNCHANGED <<Bots, sessVars, poolVars, directVars, keyVars, verify, cacheVars, startVars, rd>>

RaceStep ==
    \/ \E j \in RacedWorkers : GoFetch(j)
    \/ \E j \in RacedWorkers : GoSend(j)
    \/ RaceRecv

(***************************************************************************)
(* Specifications                                                          *)
(***************************************************************************)
SessionParked ==
    /\ now = 0
    /\ sessions = [t \in {} |-> NoSession]
    /\ issued = [t \in {} |-> NoSession]
    /\ clients = [c \in Clients |-> IdleClient]
    /\ sweeper = [pc |-> "wait", now |-> 0]
    /\ ret = NoReturn

PoolParked ==
    /\ sel = NoSel
    /\ run = NoRun

DirectParked ==
    /\ cfg = [mediaChannel |-> TRUE, streamSecret |-> FALSE, media |-> "document"]
    /\ req = [r \in Reqs |-> NoRequest]
    /\ cache = <<>>
    /\ requestLogs = 0

KeysParked ==
    /\ publicKeys = {}
    /\ cacheExpiry = 0
    /\ mu = 0
    /\ certFetches = 0
    /\ verifiers = [v \in Verifiers |-> IdleVerifier]

AuxParked == VerifyParked /\ CacheParked /\ StartParked /\ ReaderParked /\ RaceParked

InitSession == SessionInit /\ PoolParked /\ DirectParked /\ KeysParked /\ Bots = <<>> /\ AuxParked
NextSession == SessionStep
SpecSession == InitSession /\ [][NextSession]_vars

\* the session store with callers that create sessions and never validate
\* them, and a ticker that keeps firing: a sweeper run that can begin does
\* begin, and a run that has begun does its scan
SweepStep ==
    \/ Tick
    \/ \E c \in Clients : CreateBegin(c)
    \/ \E c \in Clients : CreateStore(c)
    \/ SweepBegin
    \/ cleanupExpired

InitSweep == InitSession
NextSweep == SweepStep
SpecSweep == InitSweep /\ [][NextSweep]_vars
                /\ WF_vars(SweepBegin) /\ WF_vars(cleanupExpired)

InitPool == PoolInit /\ SessionParked /\ DirectParked /\ KeysParked /\ AuxParked
NextPool == PoolStep
SpecPool == InitPool /\ [][NextPool]_vars

Init == DirectInit /\ SessionParked /\ PoolParked /\ KeysParked /\ AuxParked
Next == DirectStep
Spec == Init /\ [][Next]_vars

InitExchange == SessionInit /\ PoolParked /\ DirectParked /\ KeysParked /\ Bots = <<>> /\ AuxParked
NextExchange == ExchangeStep
SpecExchange == InitExchange /\ [][NextExchange]_vars

InitKeys == KeysInit /\ SessionParked /\ PoolParked /\ DirectParked /\ Bots = <<>> /\ AuxParked
NextKeys == KeysStep
SpecKeys == InitKeys /\ [][NextKeys]_vars

InitVerify ==
    /\ VerifyInit /\ SessionParked /\ PoolParked /\ DirectParked /\ KeysParked
    /\ CacheParked /\ StartParked /\ ReaderParked /\ RaceParked /\ Bots = <<>>
NextVerify == VerifyStep
SpecVerify == InitVerify /\ [][NextVerify]_vars

InitCache ==
    /\ CacheParked /\ SessionParked /\ PoolParked /\ DirectParked /\ KeysParked
    /\ VerifyParked /\ StartParked /\ ReaderParked /\ RaceParked /\ Bots = <<>>
NextCache == CacheStep
SpecCache == InitCache /\ [][NextCache]_vars

InitStart ==
    /\ StartInit /\ SessionParked /\ PoolParked /\ DirectParked /\ KeysParked
    /\ VerifyParked /\ CacheParked /\ ReaderParked /\ RaceParked
NextStart == StartStep
SpecStart == InitStart /\ [][NextStart]_vars

InitReader ==
    /\ ReaderInit /\ SessionParked /\ PoolParked /\ DirectParked /\ KeysParked
    /\ VerifyParked /\ CacheParked /\ StartParked /\ RaceParked /\ Bots = <<>>
NextReader == ReaderStep
SpecReader == InitReader /\ [][NextReader]_vars

\* the goroutines of the race run to their end whatever the receive loop
\* does: a goroutine that can take a step is scheduled
InitRace ==
    /\ RaceInit /\ SessionParked /\ PoolParked /\ DirectParked /\ KeysParked
    /\ VerifyParked /\ CacheParked /\ StartParked /\ ReaderParked /\ Bots = <<>>
NextRace == RaceStep
SpecRace ==
    /\ InitRace /\ [][NextRace]_vars
    /\ \A j \in RacedWorkers : WF_vars(GoFetch(j)) /\ WF_vars(GoSend(j))

\* one request served by a pool large enough for the whole retry chain
\* one request on a pool of up to MaxFetchPool workers; the workers have
\* their own tokens, or the first two were started from the same token (the
\* pool StartWorkers leaves when a start that timed out completes late)
FetchInit ==
    /\ cfg \in [mediaChannel : BOOLEAN, streamSecret : BOOLEAN,
                media : {"photo", "document"}]
    /\ \E n \in 1..MaxFetchPool, same \in BOOLEAN :
          Bots = [i \in 1..n |-> AddedWorker(n + 1 - i, IF same /\ i = 2 THEN 1 ELSE i)]
    /\ req = [r \in Reqs |-> IF r = "A" THEN NoRequest
                                       ELSE [NoRequest EXCEPT !.pc = "done"]]
    /\ cache = [i \in 1..Len(Bots) |-> NoFile]
    /\ requestLogs = 0

InitFetch == FetchInit /\ SessionParked /\ PoolParked /\ KeysParked /\ AuxParked
NextFetch == DirectStep
SpecFetch == InitFetch /\ [][NextFetch]_vars

(***************************************************************************)
(* Claims                                                                  *)
(***************************************************************************)
\* C1: with stream session auth enabled, a GET /direct request that carries
\* no session token, or one that Validate rejects, is answered 401 before
\* any worker is selected: a request that has selected its primary worker
\* carries a valid unexpired token.
C1_SessionTokenRequired ==
    \A r \in Reqs :
        (enabled /\ req[r].pc = "secondary") => req[r].f.tok = "valid"

\* C2: every request that obtains a descriptor runs StartRequest and
\* EndRequest exactly once each on the winning worker, on every exit path:
\* active_requests of a worker is never negative, counts the requests that
\* are between their StartRequest and their EndRequest on it, and is back at
\* its initial value once the requests have terminated.
C2_StartEndOnce ==
    /\ \A i \in 1..Len(Bots) :
          /\ Bots[i].ActiveRequests >= 0
          /\ Bots[i].ActiveRequests =
                Cardinality({r \in Reqs : req[r].selected = i /\ req[r].started = 1
                                            /\ req[r].ended = 0})
    /\ \A r \in Reqs :
          /\ req[r].started <= 1 /\ req[r].ended <= req[r].started
          /\ req[r].pc \in {"serve", "refetch", "refetch2", "retry", "end"} =>
                (req[r].started = 1 /\ req[r].ended = 0)
          /\ req[r].pc = "done" => req[r].ended = req[r].started
    /\ (\A r \in Reqs : req[r].pc \in {"idle", "done"}) =>
          \A i \in 1..Len(Bots) : Bots[i].ActiveRequests = 0

\* two requests were started on the same worker, both have terminated, one
\* of them with an error status, and the worker is idle again
C2_Witness ==
    /\ \A r \in Reqs : req[r].pc = "done" /\ req[r].started = 1 /\ req[r].ended = 1
    /\ \E r \in Reqs : req[r].status >= 400
    /\ \E i \in 1..Len(Bots) : Bots[i].TotalRequests = 2 /\ Bots[i].ActiveRequests = 0

\* C3: a ranged GET whose client stays connected and whose upstream reads
\* are served, with or without a reference-expiry recovery after k bytes,
\* has written to the response exactly the bytes start..end of the file, in
\* order, when the handler returns.
C3_BodyIsRange ==
    \A r \in Reqs :
        (/\ req[r].pc = "end"
         /\ req[r].file.size > 0
         /\ ~req[r].cancelled
         /\ req[r].outcome \in {"ok", "ok after refetch", "content length"}) =>
            req[r].body = Slice(req[r].start, req[r].end)

\* C10: when a goroutine of the race ends with a descriptor while
\* fetchFileWithRace is still receiving, the race returns that descriptor
\* and that worker at once, whether or not the other worker's failure was
\* received before; the race returns an error only with the second failure.
C10_FirstSuccessWins ==
    [][\A r \in Reqs, j \in {1, 2} :
          (req[r].pc = "race" /\ req[r].g[j] # NoWorker /\ req'[r].g[j] = NoWorker) =>
              IF cache'[Account(req[r].g[j])] # NoFile
              THEN /\ req'[r].pc = "start"
                   /\ req'[r].selected = req[r].g[j]
                   /\ req'[r].file = cache'[Account(req[r].g[j])]
              ELSE IF req[r].f.got = 0
                   THEN req'[r].pc = "race" /\ req'[r].f.got = 1
                   ELSE req'[r].pc = "fallback" /\ req'[r].f.err # NoErr]_vars

\* the race has returned the secondary worker's descriptor after the
\* primary worker's failure had been received
C10_Witness ==
    \E r \in Reqs :
        /\ req[r].pc = "start"
        /\ req[r].f.stage = "race"
        /\ req[r].f.got = 2
        /\ req[r].f.firstErr # NoErr
        /\ req[r].selected = req[r].f.secondary

C5_ValidateRoundTrip ==
    (ret.op = "validate" /\ ret.known /\ now <= issued[ret.tok].ExpiresAt) =>
        /\ ret.ok
        /\ ret.sess.UserID = issued[ret.tok].UserID
        /\ ret.sess.Email = issued[ret.tok].Email

\* a round trip that ends ok after another user's session was removed
C5_Witness ==
    /\ ret.op = "validate" /\ ret.known /\ ret.ok
    /\ ret.sess.UserID = "u2"
    /\ \E t \in DOMAIN issued : t \notin DOMAIN sessions /\ issued[t].UserID = "u1"

\* C6: whenever GetNextWorker is called while some pool worker has
\* active_requests = 0, the worker it returns has active_requests = 0,
\* whatever the total_requests counters are.
C6_IdlePreferred ==
    (sel.op = "GetNextWorker" /\ \E i \in 1..Len(Bots) : Bots[i].ActiveRequests = 0) =>
        (sel.w # NoWorker /\ Bots[sel.w].ActiveRequests = 0)

\* C7: for a non-empty pool GetNextWorker returns a worker, never nil, of
\* minimal score active_requests*10000 + total_requests, the earliest in
\* pool order among those of minimal score.
C7_MinScoreEarliest ==
    (sel.op = "GetNextWorker" /\ Len(Bots) > 0) =>
        /\ sel.w # NoWorker
        /\ ~sel.panic
        /\ \A i \in 1..Len(Bots) : Score(Bots[sel.w]) <= Score(Bots[i])
        /\ \A i \in 1..Len(Bots) : Score(Bots[i]) = Score(Bots[sel.w]) => sel.w <= i

\* C8: from a state in which all N workers are idle, N consecutive rounds
\* of GetNextWorker followed by StartRequest on the returned worker, with no
\* EndRequest, select N pairwise distinct workers.
C8_RoundsVisitAll ==
    (run.fromIdle /\ Len(run.picked) <= Len(Bots)) =>
        \A a, b \in 1..Len(run.picked) : a # b => run.picked[a] # run.picked[b]

\* C9: GetNextWorkerExcluding(ids) never returns a worker whose ID is in
\* ids; it returns nil exactly when the pool is empty or every worker's ID
\* is in ids; otherwise it returns a worker of minimal score among the
\* workers that are not excluded.
C9_ExcludingContract ==
    (sel.op = "GetNextWorkerExcluding") =>
        LET eligible == {i \in 1..Len(Bots) : Bots[i].ID \notin sel.excludeIDs}
        IN /\ sel.w # NoWorker => sel.w \in eligible
           /\ (sel.w = NoWorker) <=> (eligible = {})
           /\ sel.w # NoWorker =>
                \A i \in eligible : Score(Bots[sel.w]) <= Score(Bots[i])

\* C11: StartRequest is called for a request on one worker only, the worker
\* whose fetch produced the descriptor, at the single point after the fetch
\* phase; no other step of a request raises a worker's active_requests or
\* changes its total_requests, so race losers and failed workers keep theirs.
C11_StartOnlyOnWinner ==
    [][\A i \in 1..Len(Bots) :
          (\/ Bots'[i].TotalRequests # Bots[i].TotalRequests
           \/ Bots'[i].ActiveRequests > Bots[i].ActiveRequests) =>
              \E r \in Reqs :
                  /\ req[r].pc = "start" /\ req'[r].pc = "serve"
                  /\ req[r].selected = i /\ req[r].file.by = i
                  /\ req[r].started = 0 /\ req'[r].started = 1
                  /\ Bots'[i].TotalRequests = Bots[i].TotalRequests + 1
                  /\ Bots'[i].ActiveRequests = Bots[i].ActiveRequests + 1]_vars

\* a request streams through the race winner while the goroutine of the
\* race loser is still running, and the loser's counters are untouched
C11_Witness ==
    \E r \in Reqs, j \in {1, 2} :
        /\ req[r].pc = "serve"
        /\ req[r].g[j] # NoWorker /\ req[r].g[j] # req[r].selected
        /\ Bots[req[r].selected].TotalRequests = 1
        /\ Bots[req[r].g[j]].TotalRequests = 0
        /\ Bots[req[r].g[j]].ActiveRequests = 0

\* C12: once a descriptor fetch attempt of a request has failed with a hard
\* error ("message not found in channel"), in the race or in the retries,
\* the request attempts no further worker and is answered 404: it is at
\* most still receiving the result of the other raced worker, or holding
\* the error the fetch returned.
C12_HardErrorStops ==
    \A r \in Reqs :
        (IsHardError(req[r].f.firstErr) \/ IsHardError(req[r].f.err)) =>
            req[r].pc \in {"race", "fallback"}

\* the workers request r has made a descriptor fetch attempt on, once the
\* race has failed: the raced pair and the workers fetchFileWithRetry has
\* called tryOnce on (the current one is still to be tried at pc "try")
C13_Attempted(r) ==
    IF r.pc = "try" THEN r.f.exclude \ {Bots[r.f.cur].ID} ELSE r.f.exclude

\* C13: after both raced workers have failed the handler attempts the
\* descriptor fetch on at most 3 further workers, at most 5 attempts in all.
C13_AtMostFiveAttempts ==
    \A r \in Reqs :
        req[r].f.stage = "fallback" =>
            /\ Cardinality(C13_Attempted(req[r]) \ {Bots[req[r].f.primary].ID,
                                                    Bots[req[r].f.secondary].ID}) <= 3
            /\ Cardinality(C13_Attempted(req[r])) <= 5

\* C14: whenever a worker selection of the handler yields no worker, the
\* response status is 503: a step that answers a request because
\* GetNextWorkerExcluding over the workers already tried returned nil (in
\* the handler after the failed race, or in the retry loop after a soft
\* failure) answers 503.
C14_NoWorkerIs503 ==
    [][\A r \in Reqs :
          (/\ req'[r].pc = "done"
           /\ \/ /\ req[r].pc = "fallback"
                 /\ GetNextWorkerExcluding(Bots, req[r].f.seen) = NoWorker
              \/ /\ req[r].pc = "try" /\ req[r].f.retry < maxRetries
                 /\ GetNextWorkerExcluding(Bots, req[r].f.exclude) = NoWorker
                 /\ req'[r].status # 404)
          => req'[r].status = 503]_vars

\* C15: every upstream failure the handler does not recover from is answered
\* 502: a descriptor fetch that failed on all attempted workers (404 when
\* the error was hard), a failed read of an inline blob, a failed refetch
\* after the reference expired, and a read error that is not a reference
\* expiry raised before any body byte was written.
C15_UpstreamFailureIs502 ==
    \A r \in Reqs :
        /\ (req[r].pc = "done" /\ req[r].outcome = "fetch failed") =>
               req[r].status \in {404, 502}
        /\ (req[r].pc = "end" /\ req[r].outcome = "refetch failed") =>
               req[r].status = 502
        /\ (req[r].pc = "end" /\ req[r].outcome = "stream error" /\ req[r].body = <<>>) =>
               req[r].status = 502

\* C16: a GET request whose message id parses to 0 or to a negative integer
\* is answered 400 by the head of the handler, with no worker selected: a
\* step that is the head of the handler run on such a request ends in 400.
C16_NonPositiveIdIs400 ==
    [][\A r \in Reqs :
          (req[r].pc = "idle" /\ req'[r].pc # "idle" /\ cfg.mediaChannel) =>
            \A id \in {i \in MessageIDs : Atoi(i).ok /\ Atoi(i).n <= 0}, tok \in Toks,
               sig \in Sigs, exp \in Exps, unix \in UnixTimes :
                req'[r] = BeginRequest(req[r], "GET", id, tok, sig, exp, unix) =>
                    /\ req'[r].pc = "done" /\ req'[r].status = 400
                    /\ req'[r].f.primary = NoWorker]_vars

\* C17: a HEAD request to /direct/:message_id takes the course of the
\* corresponding GET: a step that is the head of the handler run on a HEAD
\* request answers with the status it gives the same request sent as GET,
\* or lets it proceed to the descriptor lookup as it does for the GET.
C17_HeadLikeGet ==
    [][\A r \in Reqs :
          (req[r].pc = "idle" /\ req'[r].pc # "idle") =>
            \A id \in MessageIDs, tok \in Toks,
               sig \in Sigs, exp \in Exps, unix \in UnixTimes :
                req'[r] = BeginRequest(req[r], "HEAD", id, tok, sig, exp, unix) =>
                    LET get == BeginRequest(req[r], "GET", id, tok, sig, exp, unix)
                    IN req'[r].pc = get.pc /\ req'[r].status = get.status]_vars

C19_ExchangeCreatesAfterVerify ==
    [][ret'.op = "exchange" =>
         /\ (Len(TrimSpace(ret'.header)) < 8) => (ret'.status = 401 /\ ~ret'.called)
         /\ (ret'.called /\ \A v \in VerifyToken(ret'.bearer) : ~v.ok) => ret'.status = 401
         /\ ret'.status # 200 => sessions' = sessions
         /\ ret'.status = 200 =>
              /\ ret'.called
              /\ ret'.tok \notin DOMAIN sessions
              /\ DOMAIN sessions' = DOMAIN sessions \cup {ret'.tok}
              /\ \A t \in DOMAIN sessions : sessions'[t] = sessions[t]
              /\ \E v \in VerifyToken(ret'.bearer) :
                    /\ v.ok
                    /\ sessions'[ret'.tok].UserID = v.Subject
                    /\ sessions'[ret'.tok].Email = v.Email
              /\ sessions'[ret'.tok].ExpiresAt = ret'.sess.ExpiresAt
              /\ sessions'[ret'.tok].UserID = ret'.sess.UserID
              /\ sessions'[ret'.tok].Email = ret'.sess.Email]_vars

\* an exchange of the header " BEARER h " has answered 200 with a token
\* that is in the store and not expired
C19_Witness ==
    /\ ret.op = "exchange" /\ ret.status = 200 /\ ret.called
    /\ ret.bearer = <<"h">> /\ Len(ret.header) = 10
    /\ ret.tok \in DOMAIN sessions
    /\ sessions[ret.tok].UserID = "u2"
    /\ ~ValidateExpired(now, sessions[ret.tok])

\* C20: when several verifiers call getPublicKey for a kid absent from the
\* cache, the certs endpoint is fetched once: a verifier that holds the
\* write lock and is about to fetch because the kid was absent does not
\* find the kid in a cache that is still valid.
C20_SingleFetch ==
    \A v \in Verifiers :
        (verifiers[v].pc = "fetch" /\ verifiers[v].force) =>
            ~(verifiers[v].kid \in publicKeys /\ Before(now, cacheExpiry))

\* C21: VerifyToken returns claims if and only if the header alg is RS256,
\* kid is non-empty, a public key for kid is available, the signature
\* verifies, exp > now, iat <= now + 300, aud is the project id, iss is the
\* issuer of the project and sub has length 1..128; otherwise it returns an
\* error and no claims.
C21_VerifyIff ==
    verify.pc = "done" =>
        LET t == verify.jwt
            good == /\ t.parts = 3 /\ t.alg = "RS256" /\ t.kid # "" /\ verify.keyOK
                    /\ t.signedBy = t.kid
                    /\ t.exp > verify.unix
                    /\ t.iat <= verify.unix + 300
                    /\ t.aud = "proj"
                    /\ t.iss = <<"https://securetoken.google.com/", "proj">>
                    /\ t.sub >= 1 /\ t.sub <= 128
        IN /\ verify.res.ok <=> good
           /\ ~good => (verify.res.err # "" /\ verify.res.Subject = 0)

\* C22: a Get of a key whose last Set has not been deleted, expired or
\* evicted returns a descriptor equal to the one stored in size, filename,
\* mime type, object id and locator, the locator being of the variant that
\* was stored; a Get of a key that was deleted (and not set again) is a miss.
C22_SetGetRoundTrip ==
    [][(cret'.op = "get" /\ now' = now) =>
         IF cret'.key \in DOMAIN live /\ ~EntryExpired(live[cret'.key])
         THEN LET d == live[cret'.key].value
              IN /\ ~cret'.err
                 /\ cret'.value.FileSize = d.FileSize
                 /\ cret'.value.FileName = d.FileName
                 /\ cret'.value.MimeType = d.MimeType
                 /\ cret'.value.ID = d.ID
                 /\ cret'.value.Location.type = d.Location.type
                 /\ cret'.value.Location = d.Location
         ELSE cret'.err /\ cret'.value = NoDescriptor]_vars

\* a photo descriptor with zero fields came back from the cache
C22_Witness ==
    /\ cret.op = "get" /\ ~cret.err
    /\ cret.value.Location.type = "photo"
    /\ cret.value.FileSize = 0 /\ cret.value.Location.ID = 0
    /\ cret.key \in DOMAIN live /\ live[cret.key].value = cret.value

\* C23: during StartWorkers at most 3 calls of Workers.Add that have started
\* and not yet returned are in progress at any time, also after a start
\* attempt was abandoned because of the per-worker start timeout.
C23_AtMostThreeAdds == Cardinality(AddsInProgress) <= maxConcurrent

\* C24: StartWorkers makes at most 4 passes (the initial one and at most 3
\* retries), a pass attempts only the tokens whose previous attempt failed
\* or timed out, and when it returns the pool holds the workers that did
\* start: at least one worker per start it counted as successful.
C24_ReturnsStartedWorkers ==
    /\ sw.attempt <= maxRetriesStart
    /\ sw.pc = "batch" => DOMAIN gor = sw.failedIndices
    /\ sw.pc = "returned" => Len(Bots) >= sw.successfulStarts

\* C25: every upstream read the ranged reader issues for the range
\* [start, end] has limit = chunk size and an offset that is a multiple of
\* the chunk size; the reads begin at floor(start / chunk) * chunk and
\* advance by one chunk per read, and none is issued at an offset beyond end.
C25_AlignedReads ==
    \A i \in 1..Len(rd.reads) :
        /\ rd.reads[i].limit = ChunkLen
        /\ rd.reads[i].offset % ChunkLen = 0
        /\ rd.reads[i].offset = ((rd.start \div ChunkLen) * ChunkLen) + ((i - 1) * ChunkLen)
        /\ rd.reads[i].offset <= rd.end

C25_Witness ==
    /\ rd.pc = "eof"
    /\ rd.start % ChunkLen # 0
    /\ Len(rd.reads) >= 3
    /\ rd.reads[Len(rd.reads)].offset = rd.end
    /\ Len(rd.out) = rd.contentLength

\* C26: a request performs at most one reference-expiry recovery.  The
\* recovery begins only after the first copy (or the first inline read)
\* failed with reference expiry; it invalidates the cache entry of the
\* worker selected for the request, refetches on that worker and copies once
\* more; whatever the refetch or the second copy yields, the handler then
\* ends, with no further refetch and no further upstream read.
C26_OneRecovery ==
    [][\A r \in Reqs :
         /\ (req'[r].pc = "refetch" /\ req[r].pc # "refetch") => req[r].pc = "serve"
         /\ (req[r].pc = "refetch" /\ req'[r].pc # "refetch") =>
               /\ req'[r].pc = "refetch2"
               /\ req'[r].selected = req[r].selected
               /\ cache' = [cache EXCEPT ![Account(req[r].selected)] = NoFile]
         /\ (req[r].pc = "refetch2" /\ req'[r].pc # "refetch2") =>
               /\ req'[r].pc \in {"retry", "end"}
               /\ req'[r].selected = req[r].selected
               /\ req'[r].pc = "retry" => req'[r].file # NoFile
               /\ \A a \in DOMAIN cache :
                     a # Account(req[r].selected) => cache'[a] = cache[a]
         /\ (req[r].pc = "retry" /\ req'[r].pc # "retry") =>
               /\ req'[r].pc = "end"
               /\ cache' = cache
         /\ (req[r].pc = "end" /\ req'[r].pc # "end") => req'[r].pc = "done"]_vars

C26_Witness ==
    \E r \in Reqs :
        /\ req[r].pc = "end"
        /\ req[r].k > 0
        /\ req[r].file.size # 0
        /\ req[r].file.by = req[r].selected
        /\ req[r].outcome = "stream error"

\* C27: when the stream copy fails while the request context is cancelled
\* (whatever the error, reference expiry included), the handler treats it
\* as a client disconnect: the same step leaves the handler, with no
\* refetch and no cache or upstream access, and with the 200/206 status it
\* had; the deferred EndRequest then runs on the selected worker and takes
\* back the one active request this request had added.
C27_DisconnectEnds ==
    [][\A r \in Reqs :
         /\ (req'[r].cancelled /\ ~req[r].cancelled) =>
               /\ req[r].pc \in {"serve", "retry"}
               /\ req'[r].pc = "end"
               /\ req'[r].status \in {200, 206}
               /\ req'[r].selected = req[r].selected
               /\ cache' = cache
               /\ Bots' = Bots
         /\ (req[r].cancelled /\ req'[r].pc # req[r].pc) =>
               /\ req[r].pc = "end" /\ req'[r].pc = "done"
               /\ req'[r].status = req[r].status
               /\ req[r].started = 1 /\ req'[r].ended = 1
               /\ Bots'[req[r].selected].ActiveRequests
                     = Bots[req[r].selected].ActiveRequests - 1
               /\ Bots'[req[r].selected].FailedRequests
                     = Bots[req[r].selected].FailedRequests]_vars

\* the first copy was cut by the client after a part of the body was
\* written, and the deferred function has not run yet
C27_Witness ==
    \E r \in Reqs :
        /\ req[r].cancelled
        /\ req[r].pc = "end"
        /\ req[r].k = -1
        /\ req[r].body # <<>>
        /\ Len(req[r].body) < req[r].end - req[r].start + 1
        /\ Bots[req[r].selected].ActiveRequests = 1

C29_SweepRemovesExpired ==
    /\ [][(sweeper.pc = "sweep" /\ sweeper'.pc = "wait") =>
            /\ DOMAIN sessions' =
                  {t \in DOMAIN sessions : ~(sweeper.now > sessions[t].ExpiresAt)}
            /\ \A t \in DOMAIN sessions' : sessions'[t] = sessions[t]]_vars
    /\ \A t \in Tokens :
          (t \in DOMAIN sessions /\ now > sessions[t].ExpiresAt) ~> (t \notin DOMAIN sessions)

\* a sweeper run has removed an expired session that no Validate had looked
\* up, and has kept a session that had not expired
C29_Witness ==
    /\ sweeper.pc = "wait"
    /\ \A c \in Clients : clients[c].pc = "idle"
    /\ \E t \in DOMAIN issued :
          t \notin DOMAIN sessions /\ now > issued[t].ExpiresAt
    /\ \E t \in DOMAIN sessions : ~(now > sessions[t].ExpiresAt)

C33_AddNeverLosesWorker ==
    [][Bots' # Bots =>
        /\ Len(Bots') = Len(Bots) + 1
        /\ SubSeq(Bots', 1, Len(Bots)) = Bots]_vars

\* C36: the workers of the pool have pairwise distinct IDs, under every
\* interleaving of the calls of Add and the later AddDefaultClient.
C36_DistinctWorkerIDs ==
    \A i, j \in DOMAIN Bots : i # j => Bots[i].ID # Bots[j].ID

\* C37: the pool never holds two workers that were created from the same
\* token, also when a start attempt timed out and the token was retried.
C37_OneWorkerPerToken ==
    \A i, j \in DOMAIN Bots : i # j => Bots[i].Client # Bots[j].Client

\* C38: a refresh of the certs that fails (request error, status other than
\* 200, undecodable or empty body, a certificate that does not parse) leaves
\* the key set and the cache expiry of the verifier as they were; a
\* successful refresh stores the key set and the expiry under the write
\* lock, so whoever can take the lock sees both or neither.
C38_RefreshAllOrNothing ==
    /\ [](mu = 0 => (publicKeys = {} <=> cacheExpiry = 0))
    /\ [][\A v \in Verifiers :
            /\ (verifiers[v].pc = "fetch" /\ verifiers'[v].res = "refresh failed") =>
                  /\ publicKeys' = publicKeys
                  /\ cacheExpiry' = cacheExpiry
            /\ (verifiers[v].pc = "fetch" /\ verifiers'[v].pc = "store") =>
                  /\ mu' = v
                  /\ publicKeys' = CertKids
            /\ (verifiers[v].pc = "store" /\ verifiers'[v].pc # "store") =>
                  /\ cacheExpiry' = now + CertTTL
                  /\ publicKeys' = publicKeys]_vars

\* a refresh has failed although the cache held the keys of an earlier
\* refresh, and the keys and the expiry of that refresh are still there
C38_Witness ==
    /\ certFetches >= 2
    /\ publicKeys = CertKids
    /\ cacheExpiry > 0
    /\ mu = 0
    /\ \E v \in Verifiers :
          /\ verifiers[v].res = "refresh failed"
          /\ \A x \in Verifiers \ {v} : verifiers[x] = IdleVerifier

\* C31: the descriptor that is used to read through the session of worker W
\* was obtained by W: by an upstream fetch made with W or from a cache entry
\* that a fetch made with W stored.  An entry stored by one worker is never
\* returned to a lookup made for another worker, for race winners, fallback
\* workers and refetches alike.
C31_DescriptorOfOwnWorker ==
    \A r \in Reqs :
        req[r].file # NoFile => req[r].file.by = req[r].selected

\* C32: RefetchFileFromMessageAndChannel never serves the descriptor from
\* the cache: the lookup it makes after deleting the key misses, so the
\* descriptor comes from an upstream call of the same worker, whatever other
\* requests for the same message do on that worker meanwhile.
C32_RefetchMissesCache ==
    [][\A r \in Reqs :
          (req[r].pc = "refetch2" /\ req'[r].pc # "refetch2") =>
              cache[Account(req[r].selected)] = NoFile]_vars

\* C34: a worker chosen as primary for a request that is still in progress
\* counts as busy for later selections: when request b selects its primary
\* worker while request a, with primary W, is in its descriptor fetch, and
\* another worker with no active request and the total_requests of W
\* exists, the primary of b is not W.
C34_PrimaryCountsAsBusy ==
    [][\A a, b \in Reqs :
          (/\ a # b
           /\ req[a].pc \in {"secondary", "race", "try", "fallback", "start"}
           /\ req[b].pc = "idle" /\ req'[b].pc = "secondary"
           /\ \E w \in DOMAIN Bots :
                 /\ w # req[a].f.primary
                 /\ Bots[w].ActiveRequests = 0
                 /\ Bots[w].TotalRequests = Bots[req[a].f.primary].TotalRequests) =>
              req'[b].f.primary # req[a].f.primary]_vars

\* C35: within one request no worker ID is attempted for the descriptor
\* fetch more than once: the secondary is not the primary, and the worker
\* the handler or the retry loop moves on to has an ID that is not among
\* the IDs attempted in the race and in the earlier retries of the request.
C35_NoWorkerTwice ==
    [][\A r \in Reqs :
         /\ (req[r].pc = "secondary" /\ req'[r].pc = "race") =>
               Bots[req'[r].f.secondary].ID # Bots[req[r].f.primary].ID
         /\ (/\ req[r].pc \in {"fallback", "try"} /\ req'[r].pc = "try"
             /\ req'[r].f.cur # req[r].f.cur) =>
               Bots[req'[r].f.cur].ID \notin (req[r].f.seen \cup req[r].f.exclude)]_vars

\* the race and three workers after it have failed: the retry loop is on its
\* last worker, the sixth ID of the request
C35_Witness ==
    \E r \in Reqs :
        /\ req[r].pc = "try"
        /\ req[r].f.stage = "fallback"
        /\ req[r].f.retry = maxRetries
        /\ Cardinality(req[r].f.exclude) = 6
        /\ Bots[req[r].f.cur].ID \in req[r].f.exclude

\* C39: a /direct request that ends before a winning worker is chosen (400
\* invalid message id, 401 failed signature check, 503 no workers, 404 or
\* 502 from the descriptor fetch phase) changes no worker's
\* active_requests, total_requests or failed_requests and appends no
\* request-log entry: the step that answers it leaves the pool and the log
\* alone, and a request answered that way never runs EndRequest.
C39_EarlyEndNoEffect ==
    /\ [](\A r \in Reqs :
            (req[r].pc = "done" /\ req[r].started = 0) => req[r].ended = 0)
    /\ [](requestLogs = Cardinality({r \in Reqs : req[r].ended > 0}))
    /\ [][\A r \in Reqs :
            (/\ req[r].pc \in {"idle", "secondary", "race", "try", "fallback"}
             /\ req'[r].pc \notin {"idle", "secondary", "race", "try", "fallback", "start"}) =>
                /\ req'[r].pc = "done"
                /\ req'[r].status \in {400, 401, 404, 500, 502, 503}
                /\ req'[r].started = 0 /\ req'[r].ended = 0
                /\ Bots' = Bots
                /\ requestLogs' = requestLogs]_vars

\* the race and the workers after it have failed with upstream errors: the
\* request was answered 502, no worker has counted it and nothing was logged
C39_Witness ==
    /\ req["A"].pc = "done"
    /\ req["A"].status = 502
    /\ req["A"].outcome = "fetch failed"
    /\ requestLogs = 0
    /\ \A i \in DOMAIN Bots :
          /\ Bots[i].ActiveRequests = 0
          /\ Bots[i].TotalRequests = 0
          /\ Bots[i].FailedRequests = 0

\* C40: every descriptor-fetch goroutine started by fetchFileWithRace
\* terminates: its send on the results channel never blocks, whether or not
\* the receive loop has returned with the other worker's result, and a
\* result delivered after the race has returned is never used.
C40_RaceGoroutinesEnd ==
    /\ <>(\A j \in RacedWorkers : rc.g[j].pc = "end")
    /\ [](\A j \in RacedWorkers :
            rc.g[j].pc = "send" => Len(rc.ch) < ResultsCap(RacedWorkers))
    /\ [][rc.pc = "returned" => (rc'.pc = "returned" /\ rc'.out = rc.out)]_vars

\* the race has returned the first worker's descriptor; the other goroutine
\* has ended too, and its descriptor stays in the channel, unread
C40_Witness ==
    /\ rc.pc = "returned"
    /\ rc.out.err = NoErr
    /\ \A j \in RacedWorkers : rc.g[j].pc = "end" /\ rc.g[j].err = NoErr
    /\ Len(rc.ch) = 1
    /\ rc.ch[1].w # rc.out.w

====
